---- MODULE Spec2Model ----
(***************************************************************************)
(* Verification model of the todo client (todo/app/page.tsx) and of the    *)
(* two AI endpoints (api/ai/todo and api/ai/summary route handlers).       *)
(*                                                                         *)
(* Spec     : the client's optimistic-update layer, its storage backend    *)
(*            and the auth events that reach the page.                     *)
(* SpecApi  : the request handling of the two endpoints.                   *)
(***************************************************************************)
EXTENDS Integers, Sequences, FiniteSets, TLC

(***************************************************************************)
(* Bounds of the model.                                                    *)
(***************************************************************************)
\* number of events the model lets happen after the page has mounted: the
\* add/edit/delete/toggle requests the client issues and the auth events
\* (SIGNED_OUT / SIGNED_IN / TOKEN_REFRESHED) delivered to it
MaxEvents == 2

\* the title the user types into the form (the rows fetched at mount have
\* another one, so an edit is visible)
Titles == {"b"}

(***************************************************************************)
(* Identifiers, users, todo records.                                       *)
(***************************************************************************)
NoId == <<"none", 0>>
NoUser == "nobody"
\* the user of this browser session, and the owner of foreign rows
Me == "u1"
Other == "u2"

TempId(t) == <<"temp", t>>
RowId(n) == <<"row", n>>
IsTemp(id) == id[1] = "temp"

Todo(id, uid, title, created, completed) ==
  [id |-> id, user_id |-> uid, title |-> title,
   created_date |-> created, completed |-> completed]

NoTodo == Todo(NoId, NoUser, "", 0, FALSE)

(***************************************************************************)
(* Storage errors: an error has a code and a message (a character          *)
(* sequence, so that message.includes("JWT") is computed).                 *)
(***************************************************************************)
JWT == <<"J", "W", "T">>

Includes(s, pat) ==
  \E i \in 1..(Len(s) - Len(pat) + 1) : SubSeq(s, i, i + Len(pat) - 1) = pat

ErrCodes == {"PGRST301", "42501"}
ErrMessages == { <<>>, <<"n", "o", " ", "J", "W", "T">>, <<"J", "W", "t">> }
Errors ==
  [code : {"42501"}, message : ErrMessages] \cup
  {[code |-> "PGRST301", message |-> <<"J", "W", "t">>]}
NoError == [code |-> "none", message |-> <<>>]

\* (variant: only the error code is looked at)
IsSessionError_CodeOnly(e) == e.code = "PGRST301"

\* error.code === "PGRST301" || error.message.includes("JWT")
IsSessionError(e) == e.code = "PGRST301" \/ Includes(e.message, JWT)

\* the fixed texts of the notifications
NoToast == <<"-">>
ToastAuthExpired == <<"auth-expired">>
ToastLoginNeeded == <<"login-needed">>
ToastAddFailed == <<"add-failed">>
ToastEditFailed == <<"edit-failed">>
ToastDeleteFailed == <<"delete-failed">>
ToastToggleFailed == <<"toggle-failed">>
ToastFetchFailed == <<"fetch-failed">>
ToastAdded == <<"added">>
ToastEdited == <<"edited">>
ToastDeleted == <<"deleted">>

\* toast.error(error.message || fallback)
ErrorToast(e, fallback) == IF e.message # <<>> THEN e.message ELSE fallback

(***************************************************************************)
(* List operations of the client.                                          *)
(***************************************************************************)
Ids(s) == {s[i].id : i \in DOMAIN s}

\* todos.find((t) => t.id === id)
Find(s, id) ==
  IF \E i \in DOMAIN s : s[i].id = id
  THEN s[CHOOSE i \in DOMAIN s : s[i].id = id /\ \A j \in 1..(i - 1) : s[j].id # id]
  ELSE NoTodo

\* prev.filter((todo) => todo.id !== id)
FilterOut(s, id) == SelectSeq(s, LAMBDA t : t.id # id)

\* prev.map((todo) => (todo.id === id ? new : todo))
MapReplace(s, id, new) == [i \in DOMAIN s |-> IF s[i].id = id THEN new ELSE s[i]]

\* prev.map((t) => (t.id === id ? { ...t, completed: c } : t))
MapSetCompleted(s, id, c) ==
  [i \in DOMAIN s |-> IF s[i].id = id THEN [s[i] EXCEPT !.completed = c] ELSE s[i]]

\* prev.map((t) => (t.id === id ? { ...t, completed: !t.completed } : t))
MapToggle(s, id) ==
  [i \in DOMAIN s |-> IF s[i].id = id THEN [s[i] EXCEPT !.completed = ~s[i].completed] ELSE s[i]]

\* one step of the stable sort by created_date descending
InsertDesc(s, x) ==
  LET k == Cardinality({i \in DOMAIN s : s[i].created_date >= x.created_date})
  IN SubSeq(s, 1, k) \o <<x>> \o SubSeq(s, k + 1, Len(s))

RECURSIVE SortByCreatedDesc(_)
\* .sort((a, b) => new Date(b.created_date) - new Date(a.created_date)), stable
SortByCreatedDesc(s) ==
  IF s = <<>> THEN <<>>
  ELSE InsertDesc(SortByCreatedDesc(SubSeq(s, 1, Len(s) - 1)), s[Len(s)])

RECURSIVE SetToSeq(_)
SetToSeq(S) ==
  IF S = {} THEN <<>>
  ELSE LET x == CHOOSE y \in S : TRUE IN <<x>> \o SetToSeq(S \ {x})

(***************************************************************************)
(* State.                                                                  *)
(***************************************************************************)
VARIABLES
  todos,          \* useState<Todo[]>: the in-memory list
  authUser,       \* useAuth().user: Me or NoUser
  editingTodo,    \* useState<Todo | null>
  showForm,       \* useState(false)
  formCompleted,  \* the form's `completed` value, fixed when the form mounts
  deleteTodoId,   \* useState<string | null>
  isLoading,      \* useState(true)
  pending,        \* storage requests in flight, each with its handler's closure
  db,             \* the rows of the backend's todos table
  clock,          \* the last reading of the millisecond clock (Date.now())
  nreq,           \* number of requests issued so far
  nev,            \* number of mutation requests and auth events so far
  nrow,           \* number of rows the backend has created
  last,           \* the last handler step: what it sent, got and showed
  hist,           \* outcome history of the mutations (for the contracts)
  apiKey,         \* process.env.GOOGLE_GENERATIVE_AI_API_KEY
  apiPc,          \* where the endpoint's POST handler is
  apiReq,         \* the request it handles
  apiResp,        \* the response it returned
  aiCalls,        \* calls of generateObject made for the request
  aiResult,       \* how the call settled: result.object, or the error thrown
  serverNow,      \* the server's clock (new Date()), in hours since the epoch
  serverTz,       \* the server's offset from UTC, in hours
  dateTable,      \* the date anchors the extraction endpoint puts in the prompt
  searchQuery,    \* useState(""): the text of the search box
  statusFilter,   \* useState<FilterStatus>("all")
  priorityFilter, \* useState<Priority | "all">("all")
  sortBy,         \* useState<SortOption>("created_date")
  viewNow,        \* the clock when the view was last computed (new Date())
  view,           \* filteredAndSortedTodos, as last computed
  loading,        \* AuthProvider's useState(true)
  pathname,       \* usePathname(), which is also window.location.pathname
  authPc,         \* where the provider's effect is
  replaced,       \* the targets of router.replace, in the order issued
  session,        \* the user of the auth collaborator's session, or NoUser
  initOutcome,    \* how the last run of initAuth finished (for the contracts)
  nnav,           \* number of navigations so far
  summaryPeriod,  \* useState<"today" | "week">("today"): the selected tab
  summaryData,    \* useState(null): the summary on display, or NoSummary
  isGeneratingSummary, \* useState(false)
  summaryPending, \* requests to /api/ai/summary in flight
  nsum,           \* number of summary requests so far
  bodyTodos,      \* the todos of a summary request the endpoint analyses
  analysis,       \* the statistics the summary endpoint computed from them
  summaryResult,  \* the body of its 200 answer
  articles,       \* the rows of the article table (ArticleRepository)
  boardPending,   \* requests to the article board between their two repository calls
  boardLog,       \* the answers of the article board (for the contracts)
  nboard          \* number of requests to the article board so far

clientVars == <<todos, authUser, editingTodo, showForm, formCompleted, deleteTodoId,
                isLoading, pending, db, clock, nreq, nev, nrow, last, hist>>

apiVars == <<apiKey, apiPc, apiReq, apiResp, aiCalls, aiResult,
             serverNow, serverTz, dateTable>>

viewVars == <<searchQuery, statusFilter, priorityFilter, sortBy, viewNow, view>>

providerVars == <<loading, pathname, authPc, replaced, session, initOutcome, nnav>>

summaryVars == <<summaryPeriod, summaryData, isGeneratingSummary, summaryPending, nsum>>

analysisVars == <<bodyTodos, analysis, summaryResult>>

boardVars == <<articles, boardPending, boardLog, nboard>>

vars == <<clientVars, apiVars, viewVars, providerVars, summaryVars, analysisVars,
          boardVars>>

(***************************************************************************)
(* The two AI endpoints (route handlers POST of api/ai/todo and of         *)
(* api/ai/summary).                                                        *)
(*                                                                         *)
(* A text is kept run-length encoded: a sequence of runs, each a number n  *)
(* of whitespace characters or of other characters.  Its length, trim()    *)
(* and replace(/\s+/g, " ") are computed on the runs.                      *)
(***************************************************************************)
\* number of runs of a request's input text
MaxRuns == 3

INPUT_MIN_LENGTH == 2
INPUT_MAX_LENGTH == 500

Run(ws, n) == [ws |-> ws, n |-> n]

\* run lengths tried: around the two limits, and a long stretch of blanks
CharRunLens == {1, 2, 250, 499, 500, 501}
BlankRunLens == {1, 300}
Runs == {Run(FALSE, n) : n \in CharRunLens} \cup {Run(TRUE, n) : n \in BlankRunLens}

\* texts in which blank runs and character runs alternate
Texts ==
  {t \in UNION {[1..k -> Runs] : k \in 0..MaxRuns} :
     \A i \in 1..(Len(t) - 1) : t[i].ws # t[i + 1].ws}

RECURSIVE StrLen(_)
\* input.length
StrLen(t) == IF t = <<>> THEN 0 ELSE t[1].n + StrLen(Tail(t))

RECURSIVE TrimStart(_)
TrimStart(t) == IF t # <<>> /\ t[1].ws THEN TrimStart(Tail(t)) ELSE t

RECURSIVE TrimEnd(_)
TrimEnd(t) ==
  IF t # <<>> /\ t[Len(t)].ws THEN TrimEnd(SubSeq(t, 1, Len(t) - 1)) ELSE t

\* input.trim()
Trim(t) == TrimEnd(TrimStart(t))

RECURSIVE CollapseBlanks(_)
\* processed.replace(/\s+/g, " "): every maximal stretch of blanks becomes one
CollapseBlanks(t) ==
  IF t = <<>> THEN <<>>
  ELSE IF t[1].ws
       THEN <<Run(TRUE, 1)>> \o CollapseBlanks(TrimStart(Tail(t)))
       ELSE <<t[1]>> \o CollapseBlanks(Tail(t))

\* preprocessInput(input)
preprocessInput(input) == CollapseBlanks(Trim(input))

\* (variant: a text of exactly the maximal length is refused)
TooLong_Inclusive(input) == StrLen(input) >= INPUT_MAX_LENGTH

\* input.length > INPUT_MAX_LENGTH
TooLong(input) == StrLen(input) > INPUT_MAX_LENGTH

\* validateInput(input): "ok" or the reason of the refusal
validateInput(input) ==
  IF input = <<>> \/ StrLen(Trim(input)) = 0 THEN "empty"
  ELSE IF StrLen(input) < INPUT_MIN_LENGTH THEN "too-short"
  ELSE IF TooLong(input) THEN "too-long"
  ELSE "ok"

\* JSON values as far as the handlers look at them: their type, the text of
\* a string (run-length encoded, or the word itself for period), the length
\* and the elements of an array
Val(type, text, word, n, elems) ==
  [type |-> type, text |-> text, word |-> word, n |-> n, elems |-> elems]

Undefined == Val("undefined", <<>>, "", 0, "none")
JsonNull == Val("null", <<>>, "", 0, "none")
JsonNumber == Val("number", <<>>, "", 0, "none")
JsonText(t) == Val("string", t, "", 0, "none")
JsonWord(w) == Val("string", <<>>, w, 0, "none")
JsonArray(n, elems) == Val("array", <<>>, "", n, elems)

\* a request body: text that is not JSON, or a JSON value; for a JSON object
\* the members the handlers read
Body(kind, inputVal, todosVal, periodVal) ==
  [kind |-> kind, input |-> inputVal, todos |-> todosVal, period |-> periodVal]

NonObjectBodies ==
  {Body(k, Undefined, Undefined, Undefined) :
     k \in {"unparseable", "null", "number", "string", "array"}}

ExtractBodies ==
  NonObjectBodies \cup
  {Body("object", v, Undefined, Undefined) :
     v \in {Undefined, JsonNull, JsonNumber, JsonArray(0, "none")} \cup
           {JsonText(t) : t \in Texts}}

\* number of todos in the body of a summary request
MaxTodos == 2

SummaryBodies ==
  NonObjectBodies \cup
  {Body("object", Undefined, t, p) :
     t \in {Undefined, JsonNull, JsonText(<<>>)} \cup
           {JsonArray(n, e) : n \in 0..MaxTodos, e \in {"todo", "null"}},
     p \in {Undefined, JsonNumber, JsonWord("today"), JsonWord("week"),
            JsonWord("month")}}

\* a request: its body and, once the handler has read the clock (new Date()),
\* the instant in hours since the epoch and the server's offset from UTC
ApiReq(endpoint, body, now, tz) ==
  [endpoint |-> endpoint, body |-> body, now |-> now, tz |-> tz]
NoApiReq == ApiReq("none", Body("unparseable", Undefined, Undefined, Undefined), 0, 0)

\* instants and offsets tried: early, midday and late on one day; servers
\* west of, at and east of UTC
Instants == {24 * 100 + h : h \in {2, 12, 22}}
TzOffsets == {-5, 0, 9}

\* the object the model returns for an extraction (after the schema check of
\* generateObject): title, due_date, due_time when present, priority.
\* The due_date is either a well-formed YYYY-MM-DD text, kept as the number
\* of its day since the epoch, or some other text.
\* a title of n characters, neighbouring characters different
TitleAlphabet == <<"a", "b", "c", "d", "e", "f", "g">>
Chars(n) == [i \in 1..n |-> TitleAlphabet[(i % 7) + 1]]
DueDate(wellFormed, day) == [wellFormed |-> wellFormed, day |-> day]
NoTime == <<"-">>
\* an optional text the model left out
NoText == <<"-">>
TodoData(title, description, due_date, due_time, priority, category) ==
  [title |-> title, description |-> description, due_date |-> due_date,
   due_time |-> due_time, priority |-> priority, category |-> category]
NoTodoData == TodoData(<<>>, NoText, DueDate(FALSE, 0), NoTime, "none", NoText)

\* description and category as the model gives them: both left out, or one
\* of them empty and the other a text
OptionalTexts ==
  { <<NoText, NoText>>, <<(<<"d">>), <<>> >>, << <<>>, (<<"c">>)>> }

ModelOutputs ==
  {TodoData(Chars(n), o[1], DueDate(w, d), t, "high", o[2]) :
     n \in {0, 1, 2, 100, 101},
     o \in OptionalTexts,
     w \in BOOLEAN,
     d \in {99, 100, 101},
     t \in {NoTime, <<>>, <<"1", "0", ":", "0", "0">>, <<"1", "0", "h">>,
            <<"2", "5", ":", "6", "1">>}}

Resp(status, error, data) == [status |-> status, error |-> error, data |-> data]
NoResp == Resp(0, "none", NoTodoData)

TITLE_MIN_LENGTH == 2
TITLE_MAX_LENGTH == 100

\* the placeholder title (three characters)
PlaceholderTitle == <<"T", " ", "D">>
Ellipsis == <<".", ".", ".">>

\* (variant: the cut keeps 100 characters before the dots)
PostprocessTitle_CutAtMax(title) ==
  LET t == IF title = <<>> THEN PlaceholderTitle ELSE title
  IN IF Len(t) < TITLE_MIN_LENGTH THEN PlaceholderTitle
     ELSE IF Len(t) > TITLE_MAX_LENGTH
          THEN SubSeq(t, 1, TITLE_MAX_LENGTH) \o Ellipsis
          ELSE t

\* let title = todoData.title || placeholder; shorter than 2: placeholder;
\* longer than 100: title.substring(0, 97) + "..."
PostprocessTitle(title) ==
  LET t == IF title = <<>> THEN PlaceholderTitle ELSE title
  IN IF Len(t) < TITLE_MIN_LENGTH THEN PlaceholderTitle
     ELSE IF Len(t) > TITLE_MAX_LENGTH
          THEN SubSeq(t, 1, TITLE_MAX_LENGTH - 3) \o Ellipsis
          ELSE t

\* d.setHours(0, 0, 0, 0): the instant of local midnight of d's local day
LocalMidnight(instant, tz) == 24 * ((instant + tz) \div 24) - tz

\* d.toISOString().split("T")[0]: the day of the instant in UTC
UtcDay(instant) == instant \div 24

\* new Date("YYYY-MM-DD"): midnight UTC of that day
ParseDay(day) == 24 * day

\* the due date after the check for dates in the past
PostprocessDueDate(due, today, tz) ==
  IF due.wellFormed /\
     LocalMidnight(ParseDay(due.day), tz) < LocalMidnight(today, tz)
  THEN DueDate(TRUE, UtcDay(today))
  ELSE due

\* postprocessTodoData(todoData, today)
postprocessTodoData(todoData, today, tz) ==
  TodoData(PostprocessTitle(todoData.title),
           todoData.description,
           PostprocessDueDate(todoData.due_date, today, tz),
           IF todoData.due_time \in {NoTime, <<>>}
           THEN <<"0", "9", ":", "0", "0">> ELSE todoData.due_time,
           IF todoData.priority = "none" THEN "medium" ELSE todoData.priority,
           todoData.category)

Digits == {"0", "1", "2", "3", "4", "5", "6", "7", "8", "9"}

\* /^\d{2}:\d{2}$/.test(t)
TimeMatches(t) ==
  /\ Len(t) = 5
  /\ t[3] = ":"
  /\ \A i \in {1, 2, 4, 5} : t[i] \in Digits

\* (variant: the summary endpoint does not look at the credential)
SummaryKeyMissing_Never(key) == FALSE

\* !process.env.GOOGLE_GENERATIVE_AI_API_KEY
SummaryKeyMissing(key) == key \in {"undefined", ""}

\* !process.env.GOOGLE_GENERATIVE_AI_API_KEY
ExtractKeyMissing(key) == key \in {"undefined", ""}

\* const { input } = requestBody: a TypeError when the body is null
DestructuringThrows(body) == body.kind = "null"

\* the member read from the parsed body (undefined on a non-object)
Member(body, v) == IF body.kind = "object" THEN v ELSE Undefined

\* the errors generateObject rejects with: a message (or none) and a status
AiMessages ==
  { <<"q", "u", "o", "t", "a">>, <<"r", "a", "t", "e", " ", "l", "i", "m", "i", "t">>,
    <<"4", "2", "9">>, <<"r", "a", "t", "e">>, <<>>,
    <<"n", "o", " ", "q", "u", "o", "t", "a", "!">> }
AiErrors == [hasMessage : BOOLEAN, message : AiMessages, status : {0, 429, 503}]

\* (variant: only the status of the error is looked at)
IsRateLimit_StatusOnly(e) == e.status = 429

\* aiError.message?.includes("quota") || ...includes("rate limit") ||
\* ...includes("429") || aiError.status === 429
IsRateLimit(e) ==
  \/ e.hasMessage /\ Includes(e.message, <<"q", "u", "o", "t", "a">>)
  \/ e.hasMessage /\ Includes(e.message, <<"r", "a", "t", "e", " ", "l", "i", "m", "i", "t">>)
  \/ e.hasMessage /\ Includes(e.message, <<"4", "2", "9">>)
  \/ e.status = 429

\* the catch block around generateObject
AiFailureResponse(e) ==
  IF IsRateLimit(e) THEN Resp(429, "rate-limited", NoTodoData)
  ELSE Resp(500, "ai-failed", NoTodoData)

\* (variant: the text is passed on as it is)
OrNull_Keep(text) == text

\* text || null
NullText == <<"null">>
OrNull(text) == IF text \in {NoText, <<>>} THEN NullText ELSE text

\* `${todoData.due_date}T${todoData.due_time}:00`: the date, and what is
\* printed after it
DateTime(due_date, due_time) ==
  [date |-> due_date, rest |-> <<"T">> \o due_time \o <<":", "0", "0">>]

\* the body of the 200 response of the extraction endpoint
ExtractResponse(todoData) ==
  [title |-> todoData.title,
   description |-> OrNull(todoData.description),
   due_date |-> DateTime(todoData.due_date, todoData.due_time),
   priority |-> todoData.priority,
   category |-> OrNull(todoData.category),
   completed |-> FALSE]

\* the body of a 200 response of the summary endpoint
SummaryResponse(summary, urgentTasks, insights, recommendations) ==
  [summary |-> summary, urgentTasks |-> urgentTasks, insights |-> insights,
   recommendations |-> recommendations]

\* the fixed sentences of the answer to an empty list
NoTodosToday == "no-todos-today"
NoTodosThisWeek == "no-todos-this-week"
AddTodosInsight == "add-todos-to-be-productive"
AddTodoRecommendation == "add-a-new-todo"

\* (variant: the sentence for today whatever the period)
EmptySummary_AlwaysToday(period) ==
  SummaryResponse(NoTodosToday, <<>>, <<AddTodosInsight>>, <<AddTodoRecommendation>>)

\* the answer to todos = []
EmptySummary(period) ==
  SummaryResponse(IF period = "today" THEN NoTodosToday ELSE NoTodosThisWeek,
                  <<>>, <<AddTodosInsight>>, <<AddTodoRecommendation>>)

\* how generateObject settled
NoAiError == [hasMessage |-> FALSE, message |-> <<>>, status |-> 0]
AiResult(kind, object, error) == [kind |-> kind, object |-> object, error |-> error]
NoAiResult == AiResult("none", NoTodoData, NoAiError)

\* day of the week of a day: 0 Sunday .. 6 Saturday (day 0 was a Thursday)
Weekday(day) == (day + 4) % 7

\* today.getDay(): the day of the week on the server's clock
GetDay(instant, tz) == Weekday((instant + tz) \div 24)

\* d.setDate(d.getDate() + n): the same time of day n days on
AddDays(instant, n) == instant + 24 * n

\* getThisWeekFriday()
getThisWeekFriday(today, tz) ==
  LET dayOfWeek == GetDay(today, tz)
      daysUntilFriday == (5 - dayOfWeek + 7) % 7
  IN IF dayOfWeek = 5 THEN UtcDay(today)
     ELSE UtcDay(AddDays(today, daysUntilFriday))

\* getNextWeekMonday()
getNextWeekMonday(today, tz) ==
  LET dayOfWeek == GetDay(today, tz)
      rest == (1 - dayOfWeek + 7) % 7
      daysUntilNextMonday == IF rest = 0 THEN 7 ELSE rest
  IN IF dayOfWeek = 1 THEN UtcDay(AddDays(today, 7))
     ELSE UtcDay(AddDays(today, daysUntilNextMonday))

\* the dates interpolated into the prompt, each as the day it prints, and the
\* day of todayStr (toLocaleDateString) with its weekday
DateTable(todayStr, todayISO, tomorrowISO, dayAfterTomorrowISO, thisWeekFridayISO, nextWeekMondayISO) ==
  [todayStr |-> todayStr, todayISO |-> todayISO, tomorrowISO |-> tomorrowISO,
   dayAfterTomorrowISO |-> dayAfterTomorrowISO,
   thisWeekFridayISO |-> thisWeekFridayISO,
   nextWeekMondayISO |-> nextWeekMondayISO]
NoDateTable == DateTable(0, 0, 0, 0, 0, 0)

DateAnchors(today, tz) ==
  DateTable((today + tz) \div 24,
            UtcDay(today),
            UtcDay(AddDays(today, 1)),
            UtcDay(AddDays(today, 2)),
            getThisWeekFriday(today, tz),
            getNextWeekMonday(today, tz))

ApiFrame == UNCHANGED <<clientVars, viewVars, providerVars, summaryVars, analysisVars, boardVars, apiKey, serverNow, serverTz>>

Respond(req, resp) ==
  /\ apiReq' = req
  /\ apiResp' = resp
  /\ apiPc' = "done"
  /\ UNCHANGED <<aiCalls, aiResult, dateTable>>

\* result = await generateObject(...)
CallModel(req, table) ==
  /\ apiReq' = req
  /\ dateTable' = table
  /\ aiCalls' = aiCalls + 1
  /\ apiPc' = "awaiting"
  /\ UNCHANGED <<apiResp, aiResult>>

\* POST of the extraction endpoint, up to the call of the model
ExtractPOST ==
  /\ apiPc = "idle"
  /\ \E body \in ExtractBodies :
       LET early == ApiReq("todo", body, 0, 0)
           input == Member(body, body.input)
           preprocessedInput == preprocessInput(input.text)
           validation == validateInput(preprocessedInput)
       IN IF ExtractKeyMissing(apiKey)
          THEN Respond(early, Resp(500, "not-configured", NoTodoData))
          ELSE IF body.kind = "unparseable"
          THEN Respond(early, Resp(400, "bad-json", NoTodoData))
          ELSE IF DestructuringThrows(body)
          THEN Respond(early, Resp(500, "server-error", NoTodoData))
          ELSE IF input.type # "string"
          THEN Respond(early, Resp(400, "not-a-string", NoTodoData))
          ELSE IF validation # "ok"
          THEN Respond(early, Resp(400, validation, NoTodoData))
          ELSE CallModel(ApiReq("todo", body, serverNow, serverTz),
                         DateAnchors(serverNow, serverTz))
  /\ ApiFrame

\* POST of the extraction endpoint once generateObject has settled
ExtractModelReply ==
  /\ apiPc = "awaiting" /\ apiReq.endpoint = "todo"
  /\ \/ \E e \in AiErrors :
          /\ aiResult' = AiResult("error", NoTodoData, e)
          /\ apiResp' = AiFailureResponse(e)
     \/ \E rawTodoData \in ModelOutputs :
          LET todoData == postprocessTodoData(rawTodoData, apiReq.now, apiReq.tz)
          IN /\ aiResult' = AiResult("object", rawTodoData, NoAiError)
             /\ apiResp' =
                  IF ~todoData.due_date.wellFormed
                  THEN Resp(500, "bad-date", NoTodoData)
                  ELSE IF ~TimeMatches(todoData.due_time)
                  THEN Resp(500, "bad-time", NoTodoData)
                  ELSE Resp(200, "none", ExtractResponse(todoData))
  /\ apiPc' = "done"
  /\ UNCHANGED <<apiReq, aiCalls, dateTable>>
  /\ ApiFrame

\* POST of the summary endpoint, up to the call of the model
SummaryPOST ==
  /\ apiPc = "idle"
  /\ \E body \in SummaryBodies :
       LET req == ApiReq("summary", body, 0, 0)
           todosVal == Member(body, body.todos)
           period == Member(body, body.period)
       IN IF SummaryKeyMissing(apiKey)
          THEN Respond(req, Resp(500, "not-configured", NoTodoData))
          ELSE IF body.kind = "unparseable"
          THEN Respond(req, Resp(400, "bad-json", NoTodoData))
          ELSE IF DestructuringThrows(body)
          THEN Respond(req, Resp(500, "server-error", NoTodoData))
          ELSE IF todosVal.type # "array"
          THEN Respond(req, Resp(400, "todos-required", NoTodoData))
          ELSE IF ~(period.type = "string" /\ period.word \in {"today", "week"})
          THEN Respond(req, Resp(400, "bad-period", NoTodoData))
          ELSE IF todosVal.n = 0
          THEN Respond(req, Resp(200, "none", EmptySummary(period.word)))
          ELSE IF todosVal.elems = "null"
          THEN Respond(req, Resp(500, "server-error", NoTodoData))
          ELSE CallModel(req, NoDateTable)
  /\ ApiFrame

\* POST of the summary endpoint once generateObject has settled
SummaryModelReply ==
  /\ apiPc = "awaiting" /\ apiReq.endpoint = "summary"
  /\ \/ \E e \in AiErrors :
          /\ aiResult' = AiResult("error", NoTodoData, e)
          /\ apiResp' = AiFailureResponse(e)
     \/ /\ aiResult' = AiResult("object", NoTodoData, NoAiError)
        /\ apiResp' = Resp(200, "none", NoTodoData)
  /\ apiPc' = "done"
  /\ UNCHANGED <<apiReq, aiCalls, dateTable>>
  /\ ApiFrame

(***************************************************************************)
(* Storage requests.  A request carries what is sent to the backend (op,   *)
(* id and uid filters, column values) and the closure of the handler that  *)
(* awaits it (prev), plus bookkeeping for the contracts (snap, solo).      *)
(***************************************************************************)
Req(rid, op, id, uid, title, completed, prev, snap, solo) ==
  [rid |-> rid, op |-> op, id |-> id, uid |-> uid, title |-> title,
   completed |-> completed, prev |-> prev, status |-> "sent", rows |-> <<>>,
   snap |-> snap, solo |-> solo]

NoReq == Req(0, "none", NoId, NoUser, "", FALSE, NoTodo, <<>>, FALSE)

MutationOps == {"insert", "update", "toggle", "delete"}

\* the list as the handler found it, kept for a request sent while nothing
\* else is in flight
Snap == IF pending = {} THEN todos ELSE <<>>

\* the requests in flight once r has been sent
Issue(r) == {[p EXCEPT !.solo = FALSE] : p \in pending} \cup {r}

Step(op, req, err, nav, toast, before) ==
  [op |-> op, req |-> req, err |-> err, nav |-> nav, toast |-> toast,
   before |-> before]

NoStep == Step("none", NoReq, NoError, FALSE, NoToast, <<>>)

NoHist ==
  [tempUsed |-> {}, tempShared |-> {}, addRejected |-> {}, addConfirmed |-> {},
   delRejected |-> {}, delAccepted |-> {}, firstVal |-> {}, updAccepted |-> {},
   fetched |-> FALSE]

\* remember the value a record had before its first edit or toggle
NoteFirstVal(h, t) ==
  IF t = NoTodo \/ (\E v \in h.firstVal : v.id = t.id) THEN h
  ELSE [h EXCEPT !.firstVal = @ \cup {t}]

(***************************************************************************)
(* The optimistic changes and their rollbacks, one per call of setTodos.   *)
(***************************************************************************)
\* setTodos((prev) => [optimisticTodo, ...prev])
AddOptimistic(s, t) == <<t>> \o s

\* setTodos((prev) => prev.filter((todo) => todo.id !== tempId))
AddRollback(s, tempId) == FilterOut(s, tempId)

\* setTodos((prev) => prev.map((todo) => todo.id === tempId ? {...newTodo} : todo))
AddConfirm(s, tempId, newTodo) == MapReplace(s, tempId, newTodo)

\* updatedTodo = { ...previousTodo, title: data.title, ..., completed: data.completed || false }
UpdatedTodo(previousTodo, title, completed) ==
  [previousTodo EXCEPT !.title = title, !.completed = completed]

\* setTodos((prev) => prev.map((todo) => (todo.id === editingTodo.id ? updatedTodo : todo)))
EditOptimistic(s, id, updatedTodo) == MapReplace(s, id, updatedTodo)

\* setTodos((prev) => prev.map((todo) => (todo.id === editingTodo.id ? previousTodo : todo)))
EditRollback(s, id, previousTodo) == MapReplace(s, id, previousTodo)

\* if (deletedTodo) setTodos((prev) => prev.filter((todo) => todo.id !== deleteTodoId))
DeleteOptimistic(s, id, deletedTodo) ==
  IF deletedTodo # NoTodo THEN FilterOut(s, id) ELSE s

\* if (deletedTodo) setTodos((prev) => [...prev, deletedTodo].sort(created_date desc))
DeleteRollback(s, deletedTodo) ==
  IF deletedTodo # NoTodo THEN SortByCreatedDesc(Append(s, deletedTodo)) ELSE s

\* setTodos((prev) => prev.map((t) => (t.id === id ? { ...t, completed: !t.completed } : t)))
ToggleOptimistic(s, id) == MapToggle(s, id)

\* setTodos((prev) => prev.map((t) => (t.id === id ? { ...t, completed: previousCompleted } : t)))
ToggleRollback(s, id, previousCompleted) == MapSetCompleted(s, id, previousCompleted)

(***************************************************************************)
(* What each handler sends.                                                *)
(***************************************************************************)
\* .insert({ user_id: authUser.id, title: data.title, ..., completed: data.completed || false })
InsertRequest(rid, user, tempId, title, completed, optimisticTodo, snap, solo) ==
  Req(rid, "insert", tempId, user, title, completed, optimisticTodo, snap, solo)

\* .update({ title, ..., completed }).eq("id", editingTodo.id).eq("user_id", authUser.id)
UpdateRequest(rid, user, previousTodo, title, completed, snap, solo) ==
  Req(rid, "update", previousTodo.id, user, title, completed, previousTodo, snap, solo)

\* (variant: the delete is filtered by id only)
DeleteRequest_IdOnly(rid, user, id, deletedTodo, snap, solo) ==
  Req(rid, "delete", id, NoUser, "", FALSE, deletedTodo, snap, solo)

\* .delete().eq("id", deleteTodoId).eq("user_id", authUser.id)
DeleteRequest(rid, user, id, deletedTodo, snap, solo) ==
  Req(rid, "delete", id, user, "", FALSE, deletedTodo, snap, solo)

\* .update({ completed: !todo.completed }).eq("id", id).eq("user_id", authUser.id)
ToggleRequest(rid, user, todo, snap, solo) ==
  Req(rid, "toggle", todo.id, user, "", ~todo.completed, todo, snap, solo)

\* .select("*").eq("user_id", authUser.id).order("created_date", { ascending: false })
FetchRequest(rid, user) ==
  Req(rid, "fetch", NoId, user, "", FALSE, NoTodo, <<>>, FALSE)

(***************************************************************************)
(* Initial state: the page has mounted with an authenticated user and the  *)
(* initial fetchTodos is in flight.  The backend holds rows of this user   *)
(* and of another one.                                                     *)
(***************************************************************************)
InitialRows ==
  { Todo(RowId(1), Me, "a", 0, FALSE), Todo(RowId(2), Other, "b", 0, TRUE) }

ClientInit ==
  /\ todos = <<>>
  /\ authUser \in {Me, NoUser}
  /\ editingTodo = NoTodo
  /\ showForm = FALSE
  /\ formCompleted = FALSE
  /\ deleteTodoId = NoId
  /\ isLoading = TRUE
  /\ pending = IF authUser = Me THEN {FetchRequest(1, Me)} ELSE {}
  /\ db = InitialRows
  /\ clock = 1
  /\ nreq = IF authUser = Me THEN 1 ELSE 0
  /\ nev = 0
  /\ nrow = 2
  /\ last = NoStep
  /\ hist = NoHist

\* no request has reached the endpoints
ApiIdle ==
  /\ apiKey = "set"
  /\ apiPc = "idle"
  /\ apiReq = NoApiReq
  /\ apiResp = NoResp
  /\ aiCalls = 0
  /\ aiResult = NoAiResult
  /\ serverNow = 24 * 100
  /\ serverTz = 0
  /\ dateTable = NoDateTable

\* the list view on the freshly mounted page: no filter, newest first
ViewIdle ==
  /\ searchQuery = <<>>
  /\ statusFilter = "all"
  /\ priorityFilter = "all"
  /\ sortBy = "created_date"
  /\ viewNow = 0
  /\ view = <<>>

(***************************************************************************)
(* The auth provider around the page.                                      *)
(***************************************************************************)
Paths == {"/", "/login", "/signup"}

IsAuthPage(path) == path = "/login" \/ path = "/signup"

NoOutcome == [via |-> "none", user |-> NoUser, path |-> "-"]

\* initAuth finished: by which branch, with which user, on which path
Outcome(via, user, path) == [via |-> via, user |-> user, path |-> path]

\* the provider has finished initialising on the home page
ProviderIdle ==
  /\ loading = FALSE
  /\ pathname = "/"
  /\ authPc = "done"
  /\ replaced = <<>>
  /\ session = authUser
  /\ initOutcome = NoOutcome
  /\ nnav = 0

\* the summary panel of the freshly mounted page
NoSummary == [period |-> "-", count |-> 0]

SummaryIdle ==
  /\ summaryPeriod = "today"
  /\ summaryData = NoSummary
  /\ isGeneratingSummary = FALSE
  /\ summaryPending = {}
  /\ nsum = 0

\* the summary endpoint has analysed nothing
NoAnalysis == [total |-> 0]

NoSummaryResult == [summary |-> "-"]

AnalysisIdle ==
  /\ bodyTodos = <<>>
  /\ analysis = NoAnalysis
  /\ summaryResult = NoSummaryResult

\* the article board holds one article and handles no request
Article(id, title) == [id |-> id, title |-> title]

BoardIdle ==
  /\ articles = {Article(1, "a")}
  /\ boardPending = {}
  /\ boardLog = {}
  /\ nboard = 0

Init ==
  /\ ClientInit /\ ApiIdle /\ ViewIdle /\ ProviderIdle /\ SummaryIdle /\ AnalysisIdle
  /\ BoardIdle

(***************************************************************************)
(* User interface events.  The delete confirmation is a modal dialog:      *)
(* while it is open only its two buttons can be used.  The cards of the    *)
(* list are rendered only while isLoading is false.                        *)
(***************************************************************************)
DialogOpen == deleteTodoId # NoId

UIFrame == UNCHANGED <<authUser, isLoading, db, clock, nrow, hist, apiVars, viewVars, providerVars, summaryVars, analysisVars, boardVars>>

\* the "add a todo" button: setShowForm(true); the form mounts with completed = false
OpenForm ==
  /\ ~DialogOpen /\ ~showForm
  /\ showForm' = TRUE
  /\ formCompleted' = IF editingTodo # NoTodo THEN editingTodo.completed ELSE FALSE
  /\ UNCHANGED <<todos, editingTodo, deleteTodoId, pending, nreq, nev>>
  /\ last' = NoStep
  /\ UIFrame

\* handleStartEdit(todo): a form that is already mounted keeps its default values
handleStartEdit ==
  /\ ~DialogOpen /\ ~isLoading
  /\ \E i \in DOMAIN todos :
       /\ editingTodo' = todos[i]
       /\ showForm' = TRUE
       /\ formCompleted' = IF showForm THEN formCompleted ELSE todos[i].completed
  /\ UNCHANGED <<todos, deleteTodoId, pending, nreq, nev>>
  /\ last' = NoStep
  /\ UIFrame

handleCancelForm ==
  /\ ~DialogOpen /\ showForm
  /\ editingTodo' = NoTodo
  /\ showForm' = FALSE
  /\ UNCHANGED <<todos, formCompleted, deleteTodoId, pending, nreq, nev>>
  /\ last' = NoStep
  /\ UIFrame

\* Date.now() is read when the handler runs: the clock has either advanced
\* since it was last read (now = clock + 1) or it has not (now = clock)
handleAddTodo(title, completed, now) ==
  IF authUser = NoUser
  THEN /\ last' = Step("handleAddTodo", NoReq, NoError, FALSE, ToastLoginNeeded, <<>>)
       /\ UNCHANGED <<todos, editingTodo, showForm, formCompleted, deleteTodoId,
                      pending, nreq, nev, authUser, isLoading, db, clock,
                      nrow, hist>>
  ELSE LET tempId == TempId(now)
           optimisticTodo == Todo(tempId, authUser, title, now, completed)
           r == InsertRequest(nreq + 1, authUser, tempId, title, completed,
                              optimisticTodo, Snap, pending = {})
       IN /\ nev < MaxEvents
          /\ todos' = AddOptimistic(todos, optimisticTodo)
          /\ showForm' = FALSE
          /\ pending' = Issue(r)
          /\ nreq' = nreq + 1
          /\ nev' = nev + 1
          /\ last' = NoStep
          /\ hist' = [hist EXCEPT
                        !.tempUsed = @ \cup {tempId},
                        !.tempShared = IF tempId \in hist.tempUsed
                                       THEN @ \cup {tempId} ELSE @]
          /\ clock' = now
          /\ UNCHANGED <<editingTodo, formCompleted, deleteTodoId, authUser,
                         isLoading, db, nrow>>

handleEditTodo(title, completed) ==
  IF editingTodo = NoTodo \/ authUser = NoUser
  THEN /\ last' = Step("handleEditTodo", NoReq, NoError, FALSE, NoToast, <<>>)
       /\ UNCHANGED <<todos, editingTodo, showForm, formCompleted, deleteTodoId,
                      pending, nreq, nev, authUser, isLoading, db, clock,
                      nrow, hist>>
  ELSE LET previousTodo == editingTodo
           updatedTodo == UpdatedTodo(previousTodo, title, completed)
           r == UpdateRequest(nreq + 1, authUser, previousTodo, title, completed,
                              Snap, pending = {})
       IN /\ nev < MaxEvents
          /\ todos' = EditOptimistic(todos, editingTodo.id, updatedTodo)
          /\ editingTodo' = NoTodo
          /\ showForm' = FALSE
          /\ pending' = Issue(r)
          /\ nreq' = nreq + 1
          /\ nev' = nev + 1
          /\ last' = NoStep
          /\ hist' = NoteFirstVal(hist, Find(todos, editingTodo.id))
          /\ UNCHANGED <<formCompleted, deleteTodoId, authUser, isLoading, db,
                         clock, nrow>>

\* handleFormSubmit(data): the form's submit button
handleFormSubmit ==
  /\ ~DialogOpen /\ showForm
  /\ UNCHANGED <<apiVars, viewVars, providerVars, summaryVars, analysisVars, boardVars>>
  /\ \E title \in Titles, now \in {clock, clock + 1} :
       IF editingTodo # NoTodo
       THEN now = clock /\ handleEditTodo(title, formCompleted)
       ELSE handleAddTodo(title, formCompleted, now)

handleDeleteClick ==
  /\ ~DialogOpen /\ ~isLoading
  /\ \E i \in DOMAIN todos : deleteTodoId' = todos[i].id
  /\ UNCHANGED <<todos, editingTodo, showForm, formCompleted, pending, nreq, nev>>
  /\ last' = NoStep
  /\ UIFrame

\* AlertDialog onOpenChange(false): setDeleteTodoId(null)
handleDeleteCancel ==
  /\ DialogOpen
  /\ deleteTodoId' = NoId
  /\ UNCHANGED <<todos, editingTodo, showForm, formCompleted, pending, nreq, nev>>
  /\ last' = NoStep
  /\ UIFrame

handleDeleteConfirm ==
  /\ DialogOpen
  /\ UNCHANGED <<apiVars, viewVars, providerVars, summaryVars, analysisVars, boardVars>>
  /\ IF authUser = NoUser
     THEN /\ last' = Step("handleDeleteConfirm", NoReq, NoError, FALSE, NoToast, <<>>)
          /\ UNCHANGED <<todos, editingTodo, showForm, formCompleted, deleteTodoId,
                         pending, nreq, nev, authUser, isLoading, db, clock, nrow, hist>>
     ELSE LET deletedTodo == Find(todos, deleteTodoId)
              r == DeleteRequest(nreq + 1, authUser, deleteTodoId, deletedTodo,
                                 Snap, pending = {})
          IN /\ nev < MaxEvents
             /\ todos' = DeleteOptimistic(todos, deleteTodoId, deletedTodo)
             /\ deleteTodoId' = NoId
             /\ pending' = Issue(r)
             /\ nreq' = nreq + 1
             /\ nev' = nev + 1
             /\ last' = NoStep
             /\ UNCHANGED <<editingTodo, showForm, formCompleted, authUser,
                            isLoading, db, clock, nrow, hist>>

handleToggleComplete ==
  /\ ~DialogOpen /\ ~isLoading
  /\ UNCHANGED <<apiVars, viewVars, providerVars, summaryVars, analysisVars, boardVars>>
  /\ \E i \in DOMAIN todos :
       LET id == todos[i].id
           todo == Find(todos, id)
           r == ToggleRequest(nreq + 1, authUser, todo, Snap, pending = {})
       IN IF authUser = NoUser
          THEN /\ last' = Step("handleToggleComplete", NoReq, NoError, FALSE, NoToast, <<>>)
               /\ UNCHANGED <<todos, editingTodo, showForm, formCompleted,
                              deleteTodoId, pending, nreq, nev, authUser,
                              isLoading, db, clock, nrow, hist>>
          ELSE /\ nev < MaxEvents
               /\ todos' = ToggleOptimistic(todos, id)
               /\ pending' = Issue(r)
               /\ nreq' = nreq + 1
               /\ nev' = nev + 1
               /\ last' = NoStep
               /\ hist' = NoteFirstVal(hist, todo)
               /\ UNCHANGED <<editingTodo, showForm, formCompleted, deleteTodoId,
                              authUser, isLoading, db, clock, nrow>>

(***************************************************************************)
(* The storage backend: it either rejects a request (network, session,     *)
(* policy) or applies it to the table.  Only rows whose id and user_id     *)
(* match the request's filters change.  A mutation is applied at the       *)
(* moment its answer reaches the client; a select is evaluated while it is *)
(* in flight and its rows are delivered later.                             *)
(***************************************************************************)
Matches(row, r) == row.id = r.id /\ row.user_id = r.uid

NewRow(r) == Todo(RowId(nrow + 1), r.uid, r.title, clock, r.completed)

ApplyToDb(r) ==
  CASE r.op = "insert" -> db \cup {NewRow(r)}
    [] r.op = "update" ->
         {IF Matches(row, r)
          THEN [row EXCEPT !.title = r.title, !.completed = r.completed]
          ELSE row : row \in db}
    [] r.op = "toggle" ->
         {IF Matches(row, r) THEN [row EXCEPT !.completed = r.completed]
          ELSE row : row \in db}
    [] r.op = "delete" -> {row \in db : ~Matches(row, r)}
    [] OTHER -> db

ResultRows(r) ==
  SortByCreatedDesc(SetToSeq({row \in db : row.user_id = r.uid}))

BackendFrame ==
  UNCHANGED <<apiVars, viewVars, providerVars, summaryVars, analysisVars, boardVars>> /\ UNCHANGED <<todos, authUser, editingTodo, showForm, formCompleted, deleteTodoId,
              isLoading, clock, nreq, nev, hist>>

\* the backend evaluates the select of a fetch that is in flight
BackendSelect ==
  /\ \E r \in pending :
       /\ r.op = "fetch" /\ r.status = "sent"
       /\ pending' = (pending \ {r}) \cup {[r EXCEPT !.status = "ok", !.rows = ResultRows(r)]}
  /\ last' = NoStep
  /\ UNCHANGED <<db, nrow>>
  /\ BackendFrame

\* the backend rejects a fetch that is in flight
BackendRejectSelect ==
  /\ \E r \in pending :
       /\ r.op = "fetch" /\ r.status = "sent"
       /\ pending' = (pending \ {r}) \cup {[r EXCEPT !.status = "err"]}
  /\ last' = NoStep
  /\ UNCHANGED <<db, nrow>>
  /\ BackendFrame

(***************************************************************************)
(* The continuations of the handlers after `await`.                        *)
(***************************************************************************)
ReplyFrame ==
  UNCHANGED <<apiVars, viewVars, providerVars, summaryVars, analysisVars, boardVars>> /\ UNCHANGED <<authUser, editingTodo, showForm, formCompleted, deleteTodoId,
              clock, nreq, nev>>

\* the part every failure branch shares: session errors navigate to /login,
\* the others are thrown to the catch block, which shows the message
FailureStep(op, r, e, fallback) ==
  IF IsSessionError(e)
  THEN Step(op, r, e, TRUE, ToastAuthExpired, todos)
  ELSE Step(op, r, e, FALSE, ErrorToast(e, fallback), todos)

AddReply ==
  /\ \E r \in pending :
       /\ r.op = "insert"
       /\ pending' = pending \ {r}
       /\ \/ \E e \in Errors :
                 /\ UNCHANGED <<db, nrow>>
                 /\ todos' = AddRollback(todos, r.id)
                 /\ last' = FailureStep("AddReply", r, e, ToastAddFailed)
                 /\ hist' = [hist EXCEPT !.addRejected = @ \cup {r.id}]
          \/ /\ db' = ApplyToDb(r)
             /\ nrow' = nrow + 1
             /\ todos' = AddConfirm(todos, r.id, NewRow(r))
             /\ last' = NoStep
             /\ hist' = [hist EXCEPT !.addConfirmed = @ \cup {r.id}]
  /\ UNCHANGED isLoading
  /\ ReplyFrame

EditReply ==
  /\ \E r \in pending :
       /\ r.op = "update"
       /\ pending' = pending \ {r}
       /\ \/ \E e \in Errors :
                 /\ UNCHANGED <<db, nrow>>
                 /\ todos' = EditRollback(todos, r.id, r.prev)
                 /\ last' = FailureStep("EditReply", r, e, ToastEditFailed)
                 /\ UNCHANGED hist
          \/ /\ db' = ApplyToDb(r)
             /\ UNCHANGED nrow
             /\ last' = NoStep
             /\ hist' = [hist EXCEPT !.updAccepted = @ \cup {r.id}]
             /\ UNCHANGED todos
  /\ UNCHANGED isLoading
  /\ ReplyFrame

DeleteReply ==
  /\ \E r \in pending :
       /\ r.op = "delete"
       /\ pending' = pending \ {r}
       /\ \/ \E e \in Errors :
                 /\ UNCHANGED <<db, nrow>>
                 /\ todos' = DeleteRollback(todos, r.prev)
                 /\ last' = FailureStep("DeleteReply", r, e, ToastDeleteFailed)
                 /\ hist' = IF r.prev # NoTodo
                            THEN [hist EXCEPT !.delRejected = @ \cup {r.id}]
                            ELSE hist
          \/ /\ db' = ApplyToDb(r)
             /\ UNCHANGED nrow
             /\ last' = NoStep
             /\ hist' = [hist EXCEPT !.delAccepted = @ \cup {r.id}]
             /\ UNCHANGED todos
  /\ UNCHANGED isLoading
  /\ ReplyFrame

ToggleReply ==
  /\ \E r \in pending :
       /\ r.op = "toggle"
       /\ pending' = pending \ {r}
       /\ \/ \E e \in Errors :
                 /\ UNCHANGED <<db, nrow>>
                 /\ todos' = ToggleRollback(todos, r.id, r.prev.completed)
                 /\ last' = FailureStep("ToggleReply", r, e, ToastToggleFailed)
                 /\ UNCHANGED hist
          \/ /\ db' = ApplyToDb(r)
             /\ UNCHANGED nrow
             /\ last' = NoStep
             /\ hist' = [hist EXCEPT !.updAccepted = @ \cup {r.id}]
             /\ UNCHANGED todos
  /\ UNCHANGED isLoading
  /\ ReplyFrame

\* fetchTodos after its awaits: setTodos(todosData), or a notification
FetchReply ==
  /\ \E r \in pending :
       /\ r.op = "fetch" /\ r.status # "sent"
       /\ pending' = pending \ {r}
       /\ IF r.status = "err"
          THEN \E e \in Errors :
                 /\ last' = FailureStep("FetchReply", r, e, ToastFetchFailed)
                 /\ UNCHANGED <<todos, hist>>
          ELSE /\ todos' = r.rows
               /\ last' = NoStep
               /\ hist' = [hist EXCEPT !.fetched = TRUE]
  /\ isLoading' = FALSE
  /\ UNCHANGED <<db, nrow>>
  /\ ReplyFrame

(***************************************************************************)
(* Auth events reaching the page through the auth provider.                *)
(***************************************************************************)
AuthFrame ==
  UNCHANGED <<apiVars, viewVars, summaryVars, analysisVars, boardVars, loading, pathname, authPc, initOutcome, nnav>> /\ UNCHANGED <<todos, editingTodo, showForm, formCompleted, deleteTodoId, db,
              clock, nrow, hist>>

\* the effect on [authUser, authLoading, fetchTodos] calls fetchTodos()
StartFetch(user) ==
  /\ isLoading' = TRUE
  /\ pending' = Issue(FetchRequest(nreq + 1, user))
  /\ nreq' = nreq + 1
  /\ last' = NoStep

\* the callback given to onAuthStateChange, as far as the provider's own state
\* goes: the subscription exists once the effect has created the client
onAuthStateChange(event) ==
  /\ nev < MaxEvents
  /\ authPc \in {"getSession", "done"}
  /\ nev' = nev + 1
  /\ CASE event = "SIGNED_IN" ->
            /\ session = NoUser
            /\ session' = Me
            /\ authUser' = Me
            /\ replaced' = IF IsAuthPage(pathname) THEN Append(replaced, "/")
                                                   ELSE replaced
       [] event = "SIGNED_OUT" ->
            /\ session # NoUser
            /\ session' = NoUser
            /\ authUser' = NoUser
            /\ replaced' = IF IsAuthPage(pathname) THEN replaced
                                                   ELSE Append(replaced, "/login")
       [] event = "TOKEN_REFRESHED" ->
            /\ session # NoUser
            /\ session' = session
            /\ authUser' = session
            /\ replaced' = replaced

\* SIGNED_OUT: setUser(null); router.replace("/login")
AuthSignedOut ==
  /\ onAuthStateChange("SIGNED_OUT")
  /\ last' = NoStep
  /\ UNCHANGED <<isLoading, pending, nreq>>
  /\ AuthFrame

\* SIGNED_IN: setUser(session.user)
AuthSignedIn ==
  /\ onAuthStateChange("SIGNED_IN")
  /\ StartFetch(Me)
  /\ AuthFrame

\* TOKEN_REFRESHED: setUser(session.user), a new user object
AuthTokenRefreshed ==
  /\ onAuthStateChange("TOKEN_REFRESHED")
  /\ StartFetch(session)
  /\ AuthFrame

Next ==
  \/ OpenForm
  \/ handleStartEdit
  \/ handleCancelForm
  \/ handleFormSubmit
  \/ handleDeleteClick
  \/ handleDeleteCancel
  \/ handleDeleteConfirm
  \/ handleToggleComplete
  \/ BackendSelect
  \/ BackendRejectSelect
  \/ AddReply
  \/ EditReply
  \/ DeleteReply
  \/ ToggleReply
  \/ FetchReply
  \/ AuthSignedOut
  \/ AuthSignedIn
  \/ AuthTokenRefreshed

Spec == Init /\ [][Next]_vars

(***************************************************************************)
(* The endpoints: a request arrives at a server whose credential is unset, *)
(* empty or set.                                                           *)
(***************************************************************************)
ClientParked ==
  /\ todos = <<>>
  /\ authUser = NoUser
  /\ editingTodo = NoTodo
  /\ showForm = FALSE
  /\ formCompleted = FALSE
  /\ deleteTodoId = NoId
  /\ isLoading = TRUE
  /\ pending = {}
  /\ db = InitialRows
  /\ clock = 1
  /\ nreq = 0
  /\ nev = 0
  /\ nrow = 2
  /\ last = NoStep
  /\ hist = NoHist

InitApi ==
  /\ ClientParked
  /\ apiKey \in {"undefined", "", "set"}
  /\ apiPc = "idle"
  /\ apiReq = NoApiReq
  /\ apiResp = NoResp
  /\ aiCalls = 0
  /\ aiResult = NoAiResult
  /\ serverNow \in Instants
  /\ serverTz \in TzOffsets
  /\ dateTable = NoDateTable
  /\ ViewIdle
  /\ ProviderIdle
  /\ SummaryIdle
  /\ AnalysisIdle
  /\ BoardIdle

NextApi ==
  \/ ExtractPOST
  \/ ExtractModelReply
  \/ SummaryPOST
  \/ SummaryModelReply

SpecApi == InitApi /\ [][NextApi]_vars

(***************************************************************************)
(* The date table of the extraction endpoint, on every day of a week.     *)
(***************************************************************************)
\* early, midday and late (UTC) on seven consecutive days
WeekInstants == {24 * d + h : d \in 100..106, h \in {2, 12, 22}}

InitAnchors ==
  /\ ClientParked
  /\ apiKey = "set"
  /\ apiPc = "idle"
  /\ apiReq = NoApiReq
  /\ apiResp = NoResp
  /\ aiCalls = 0
  /\ aiResult = NoAiResult
  /\ serverNow \in WeekInstants
  /\ serverTz \in TzOffsets
  /\ dateTable = NoDateTable
  /\ ViewIdle
  /\ ProviderIdle
  /\ SummaryIdle
  /\ AnalysisIdle
  /\ BoardIdle

NextAnchors == ExtractPOST

SpecAnchors == InitAnchors /\ [][NextAnchors]_vars

(***************************************************************************)
(* The list view of the page: filteredAndSortedTodos, recomputed when the  *)
(* list or one of the filter settings changes.                             *)
(***************************************************************************)
\* length of the lists the view is computed from
MaxViewLen == 3

\* a todo without due date
NoDue == 0

\* instants (milliseconds) of due dates and of the clock
DueDates == {3, 5}
ViewInstants == {4, 5}

ViewTodo(id, title, completed, due_date, priority, created_date) ==
  [id |-> id, user_id |-> Me, title |-> title, completed |-> completed,
   due_date |-> due_date, priority |-> priority, created_date |-> created_date]

\* the todos a list is made of: completed or not, with each due date or none;
\* title, priority and creation date differ from one to the next
ViewTodos ==
  { ViewTodo(RowId(10 * d + (IF c THEN 1 ELSE 0)),
             IF d = 5 THEN <<"A", "b">> ELSE IF c THEN <<"b">> ELSE <<"c">>,
             c, d,
             IF d = NoDue THEN "high" ELSE IF d = 3 THEN "low" ELSE "medium",
             IF c THEN 10 - d ELSE d) :
      c \in BOOLEAN, d \in {NoDue} \cup DueDates }

ViewLists == UNION {[1..n -> ViewTodos] : n \in 0..MaxViewLen}

SearchQueries == { <<>>, <<"B">> }

\* toLowerCase() on the letters used
ToLowerCase(text) ==
  [i \in DOMAIN text |->
     IF text[i] = "A" THEN "a" ELSE IF text[i] = "B" THEN "b" ELSE text[i]]

\* todo.title.toLowerCase().includes(query)
MatchesSearch(todo, query) ==
  query = <<>> \/ Includes(ToLowerCase(todo.title), ToLowerCase(query))

\* (variant: a todo due exactly now counts as overdue)
MatchesStatus_DueNowOverdue(todo, filter, now) ==
  CASE filter = "completed" -> todo.completed
    [] filter = "in-progress" ->
         ~todo.completed /\ (todo.due_date = NoDue \/ todo.due_date > now)
    [] filter = "overdue" ->
         ~todo.completed /\ todo.due_date # NoDue /\ todo.due_date <= now
    [] OTHER -> TRUE

\* the predicate of the status filter
MatchesStatus(todo, filter, now) ==
  CASE filter = "completed" -> todo.completed
    [] filter = "in-progress" ->
         ~todo.completed /\ (todo.due_date = NoDue \/ todo.due_date >= now)
    [] filter = "overdue" ->
         ~todo.completed /\ todo.due_date # NoDue /\ todo.due_date < now
    [] OTHER -> TRUE

\* today.setHours(0, 0, 0, 0): the start of the day of an instant (milliseconds)
Midnight(instant) == instant - (instant % (24 * 60 * 60 * 1000))

\* the status a todo's card shows
getStatus(todo, now) ==
  IF todo.completed THEN "completed"
  ELSE IF todo.due_date # NoDue /\ todo.due_date < Midnight(now) THEN "overdue"
  ELSE "in-progress"

\* todo.priority === priorityFilter
MatchesPriority(todo, filter) == filter = "all" \/ todo.priority = filter

priorityOrder == [high |-> 3, medium |-> 2, low |-> 1]

\* a.title.localeCompare(b.title, "ko") on the titles used: by letters
\* without regard to case, a shorter title first
LocaleCompare(a, b) ==
  LET x == ToLowerCase(a)
      y == ToLowerCase(b)
      Rank(c) == CASE c = "a" -> 1 [] c = "b" -> 2 [] OTHER -> 3
  IN IF x = y THEN 0
     ELSE IF x = <<>> THEN -1
     ELSE IF y = <<>> THEN 1
     ELSE IF Rank(x[1]) # Rank(y[1]) THEN Rank(x[1]) - Rank(y[1])
     ELSE Len(x) - Len(y)

\* (variant: a todo without due date sorts first)
Compare_UndatedFirst(a, b, key) ==
  CASE key = "priority" -> priorityOrder[b.priority] - priorityOrder[a.priority]
    [] key = "due_date" ->
         IF a.due_date = NoDue THEN -1
         ELSE IF b.due_date = NoDue THEN 1
         ELSE a.due_date - b.due_date
    [] key = "created_date" -> b.created_date - a.created_date
    [] key = "title" -> LocaleCompare(a.title, b.title)
    [] OTHER -> 0

\* the comparator handed to sort
Compare(a, b, key) ==
  CASE key = "priority" -> priorityOrder[b.priority] - priorityOrder[a.priority]
    [] key = "due_date" ->
         IF a.due_date = NoDue THEN 1
         ELSE IF b.due_date = NoDue THEN -1
         ELSE a.due_date - b.due_date
    [] key = "created_date" -> b.created_date - a.created_date
    [] key = "title" -> LocaleCompare(a.title, b.title)
    [] OTHER -> 0

\* one step of the insertion sort the engine runs on a short array: x goes
\* behind the last element it does not compare smaller than
InsertSorted(sorted, x, key) ==
  LET behind == {j \in DOMAIN sorted : Compare(x, sorted[j], key) >= 0}
      k == IF behind = {} THEN 0 ELSE CHOOSE j \in behind : \A i \in behind : i <= j
  IN SubSeq(sorted, 1, k) \o <<x>> \o SubSeq(sorted, k + 1, Len(sorted))

RECURSIVE SortTodos(_, _)
\* filtered.sort((a, b) => ...)
SortTodos(list, key) ==
  IF list = <<>> THEN <<>>
  ELSE InsertSorted(SortTodos(SubSeq(list, 1, Len(list) - 1), key), list[Len(list)], key)

filteredAndSortedTodos(list, query, status, priority, key, now) ==
  SortTodos(SelectSeq(list, LAMBDA t : /\ MatchesSearch(t, query)
                                      /\ MatchesStatus(t, status, now)
                                      /\ MatchesPriority(t, priority)),
            key)

ViewFrame == UNCHANGED <<clientVars, apiVars, providerVars, summaryVars, analysisVars, boardVars>>

\* the memo recomputes with the settings given, at some instant
Recompute(query, status, priority, key) ==
  \E now \in ViewInstants :
    /\ viewNow' = now
    /\ view' = filteredAndSortedTodos(todos, query, status, priority, key, now)

\* onChange of the search box
SetSearchQuery ==
  /\ \E q \in SearchQueries \ {searchQuery} :
       /\ searchQuery' = q
       /\ Recompute(q, statusFilter, priorityFilter, sortBy)
  /\ UNCHANGED <<statusFilter, priorityFilter, sortBy>>
  /\ ViewFrame

\* onValueChange of the status select
SetStatusFilter ==
  /\ \E f \in {"all", "completed", "in-progress", "overdue"} \ {statusFilter} :
       /\ statusFilter' = f
       /\ Recompute(searchQuery, f, priorityFilter, sortBy)
  /\ UNCHANGED <<searchQuery, priorityFilter, sortBy>>
  /\ ViewFrame

\* onValueChange of the priority select
SetPriorityFilter ==
  /\ \E f \in {"all", "high"} \ {priorityFilter} :
       /\ priorityFilter' = f
       /\ Recompute(searchQuery, statusFilter, f, sortBy)
  /\ UNCHANGED <<searchQuery, statusFilter, sortBy>>
  /\ ViewFrame

\* onValueChange of the sort select
SetSortBy ==
  /\ \E k \in {"priority", "due_date", "created_date", "title"} \ {sortBy} :
       /\ sortBy' = k
       /\ Recompute(searchQuery, statusFilter, priorityFilter, k)
  /\ UNCHANGED <<searchQuery, statusFilter, priorityFilter>>
  /\ ViewFrame

\* the page showing a loaded list, no filter set, newest first
InitView ==
  /\ todos \in ViewLists
  /\ authUser = Me
  /\ editingTodo = NoTodo
  /\ showForm = FALSE
  /\ formCompleted = FALSE
  /\ deleteTodoId = NoId
  /\ isLoading = FALSE
  /\ pending = {}
  /\ db = {}
  /\ clock = 1
  /\ nreq = 0
  /\ nev = 0
  /\ nrow = 0
  /\ last = NoStep
  /\ hist = NoHist
  /\ ApiIdle
  /\ searchQuery = <<>>
  /\ statusFilter = "all"
  /\ priorityFilter = "all"
  /\ sortBy = "created_date"
  /\ viewNow \in ViewInstants
  /\ view = filteredAndSortedTodos(todos, <<>>, "all", "all", "created_date", viewNow)
  /\ ProviderIdle
  /\ SummaryIdle
  /\ AnalysisIdle
  /\ BoardIdle

NextView ==
  \/ SetSearchQuery
  \/ SetStatusFilter
  \/ SetPriorityFilter
  \/ SetSortBy

SpecView == InitView /\ [][NextView]_vars

(***************************************************************************)
(* The auth provider from its mount: the effect creates the client, starts *)
(* initAuth and subscribes to the auth events.  The effect runs again when *)
(* the path changes.  The page inside the provider is left out here.       *)
(***************************************************************************)
MaxNavs == 2

AuthEvents == {"SIGNED_IN", "SIGNED_OUT", "TOKEN_REFRESHED"}

ProviderFrame ==
  UNCHANGED <<todos, editingTodo, showForm, formCompleted, deleteTodoId, isLoading,
              pending, db, clock, nreq, nrow, last, hist, apiVars, viewVars,
              summaryVars, analysisVars, boardVars>>

\* createClient() throws: setLoading(false) and the effect returns
CreateClientThrows ==
  /\ authPc = "mount"
  /\ loading' = FALSE
  /\ authPc' = "failed"
  /\ UNCHANGED <<authUser, nev, pathname, replaced, session, initOutcome, nnav>>
  /\ ProviderFrame

\* initAuth() up to its await of getSession(); the subscription is made
initAuth ==
  /\ authPc = "mount"
  /\ authPc' = "getSession"
  /\ UNCHANGED <<authUser, nev, loading, pathname, replaced, session, initOutcome, nnav>>
  /\ ProviderFrame

\* where initAuth sends the browser, "-" for nowhere
RedirectTarget(sessionUser, path) ==
  IF sessionUser = NoUser /\ ~IsAuthPage(path) THEN "/login"
  ELSE IF sessionUser # NoUser /\ IsAuthPage(path) THEN "/"
  ELSE "-"

\* getSession() resolves, with a session, without one, or with an error
GetSessionReturns ==
  /\ authPc = "getSession"
  /\ \E sessionError \in BOOLEAN :
       LET sessionUser == IF sessionError THEN NoUser ELSE session
           target == RedirectTarget(sessionUser, pathname)
       IN /\ authUser' = sessionUser
          /\ loading' = FALSE
          /\ replaced' = IF target = "-" THEN replaced ELSE Append(replaced, target)
          /\ initOutcome' = Outcome(IF sessionError THEN "error" ELSE "session",
                                    sessionUser, pathname)
  /\ authPc' = "done"
  /\ UNCHANGED <<nev, pathname, session, nnav>>
  /\ ProviderFrame

\* getSession() rejects: the catch block of initAuth
GetSessionThrows ==
  /\ authPc = "getSession"
  /\ authUser' = NoUser
  /\ loading' = FALSE
  /\ initOutcome' = Outcome("threw", NoUser, pathname)
  /\ authPc' = "done"
  /\ UNCHANGED <<nev, pathname, replaced, session, nnav>>
  /\ ProviderFrame

\* an auth event reaches the subscription
AuthStateChanges ==
  /\ \E event \in AuthEvents : onAuthStateChange(event)
  /\ UNCHANGED <<loading, pathname, authPc, initOutcome, nnav>>
  /\ ProviderFrame

\* the path changes (a redirect lands, a link is followed): the effect runs again
Navigate ==
  /\ authPc = "done" /\ nnav < MaxNavs
  /\ \E path \in Paths \ {pathname} : pathname' = path
  /\ authPc' = "mount"
  /\ nnav' = nnav + 1
  /\ UNCHANGED <<authUser, nev, loading, replaced, session, initOutcome>>
  /\ ProviderFrame

InitProvider ==
  /\ ClientParked
  /\ ApiIdle
  /\ ViewIdle
  /\ loading = TRUE
  /\ pathname \in Paths
  /\ authPc = "mount"
  /\ replaced = <<>>
  /\ session \in {NoUser, Me}
  /\ initOutcome = NoOutcome
  /\ nnav = 0
  /\ SummaryIdle
  /\ AnalysisIdle
  /\ BoardIdle

NextProvider ==
  \/ CreateClientThrows
  \/ initAuth
  \/ GetSessionReturns
  \/ GetSessionThrows
  \/ AuthStateChanges
  \/ Navigate

SpecProvider == InitProvider /\ [][NextProvider]_vars

\* React runs the effect of a mounted component, and the collaborator settles
\* the promise of getSession()
SpecProviderFair ==
  /\ SpecProvider
  /\ WF_vars(CreateClientThrows \/ initAuth)
  /\ WF_vars(GetSessionReturns \/ GetSessionThrows)

(***************************************************************************)
(* The summary panel of the page: two period tabs, a button that asks the  *)
(* summary endpoint about the todos of the selected period, and the        *)
(* summary on display below the tabs.  Instants are in hours here.         *)
(***************************************************************************)
MaxSummaries == 2

MaxSummaryLen == 2

Periods == {"today", "week"}

\* due dates: none, Saturday of day 100, the Thursday before, the Monday after
SummaryDueDates == {NoDue, 24 * 100 + 9, 24 * 98, 24 * 102}

\* the clock of the browser: Saturday of day 100, and the Sunday after
SummaryInstants == {24 * 100 + 10, 24 * 101 + 10}

SummaryLists ==
  UNION {[1..n -> SummaryDueDates] : n \in 0..MaxSummaryLen}

\* the list whose i-th record has the i-th due date
SummaryTodos(dues) ==
  [i \in DOMAIN dues |-> ViewTodo(RowId(i), <<"a">>, FALSE, dues[i], "medium", 0)]

\* setHours(0, 0, 0, 0): dates are compared by their day
StartOfDay(instant) == instant \div 24

Select(list, Keep(_)) ==
  LET F[i \in 0..Len(list)] ==
        IF i = 0 THEN <<>>
        ELSE IF Keep(list[i]) THEN Append(F[i - 1], list[i]) ELSE F[i - 1]
  IN F[Len(list)]

getFilteredTodosByPeriod(list, period, now) ==
  LET todayStart == StartOfDay(now)
      dayOfWeek == Weekday(todayStart)
      monday == todayStart - (IF dayOfWeek = 0 THEN 6 ELSE dayOfWeek - 1)
      sunday == monday + 6
      Today(todo) == todo.due_date # NoDue /\ StartOfDay(todo.due_date) = todayStart
      Week(todo) == /\ todo.due_date # NoDue
                    /\ StartOfDay(todo.due_date) >= monday
                    /\ StartOfDay(todo.due_date) <= sunday
  IN IF period = "today" THEN Select(list, Today) ELSE Select(list, Week)

SummaryFrame == UNCHANGED <<clientVars, apiVars, viewVars, providerVars, analysisVars, boardVars>>

\* Tabs onValueChange: setSummaryPeriod(value); setSummaryData(null)
SelectTab ==
  /\ \E value \in Periods \ {summaryPeriod} : summaryPeriod' = value
  /\ summaryData' = NoSummary
  /\ UNCHANGED <<isGeneratingSummary, summaryPending, nsum>>
  /\ SummaryFrame

\* the request handleGenerateSummary sends, tagged with the period it was made for
SummaryRequest(rid, filteredTodos, period) ==
  [rid |-> rid, todos |-> filteredTodos, period |-> period]

\* the button of the selected tab, enabled unless a summary is being generated
\* or the period has no todo
handleGenerateSummary ==
  /\ authUser # NoUser
  /\ ~isGeneratingSummary
  /\ nsum < MaxSummaries
  /\ \E now \in SummaryInstants :
       LET filteredTodos == getFilteredTodosByPeriod(todos, summaryPeriod, now)
       IN /\ Len(filteredTodos) > 0
          /\ summaryPending' = summaryPending \cup
                                 {SummaryRequest(nsum + 1, filteredTodos, summaryPeriod)}
  /\ isGeneratingSummary' = TRUE
  /\ summaryData' = NoSummary
  /\ nsum' = nsum + 1
  /\ UNCHANGED summaryPeriod
  /\ SummaryFrame

\* the data of a 200 reply, tagged with the period of its request
SummaryFor(r) == [period |-> r.period, count |-> Len(r.todos)]

\* the reply arrives: setSummaryData(data) when response.ok, a toast otherwise
SummaryReply ==
  /\ \E r \in summaryPending :
       /\ summaryPending' = summaryPending \ {r}
       /\ \E ok \in BOOLEAN :
            summaryData' = IF ok THEN SummaryFor(r) ELSE summaryData
  /\ isGeneratingSummary' = FALSE
  /\ UNCHANGED <<summaryPeriod, nsum>>
  /\ SummaryFrame

InitSummary ==
  /\ \E dues \in SummaryLists : todos = SummaryTodos(dues)
  /\ authUser = Me
  /\ editingTodo = NoTodo
  /\ showForm = FALSE
  /\ formCompleted = FALSE
  /\ deleteTodoId = NoId
  /\ isLoading = FALSE
  /\ pending = {}
  /\ db = {}
  /\ clock = 1
  /\ nreq = 0
  /\ nev = 0
  /\ nrow = 0
  /\ last = NoStep
  /\ hist = NoHist
  /\ ApiIdle
  /\ ViewIdle
  /\ ProviderIdle
  /\ SummaryIdle
  /\ AnalysisIdle
  /\ BoardIdle

NextSummary ==
  \/ SelectTab
  \/ handleGenerateSummary
  \/ SummaryReply

SpecSummary == InitSummary /\ [][NextSummary]_vars

(***************************************************************************)
(* The statistics of the summary endpoint: what POST computes from a       *)
(* non-empty list of todos before it asks the model, and the answer it     *)
(* builds from the model's reply.  Instants are in hours; a rate is kept   *)
(* in tenths of a percent, so 667 is the text "66.7".                      *)
(***************************************************************************)
\* length of the lists drawn from every kind of todo
MaxAnalysedLen == 2

\* length of the long lists, drawn from two kinds of todo
MaxLongLen == 7

\* a todo without creation date
NoCreated == NoDue

\* due dates around the server's clock: three days back at 8, today at 12,
\* tomorrow at 18, three days on at midnight (UTC)
AnalysedDueDates == {NoDue, 24 * 97 + 8, 24 * 100 + 12, 24 * 101 + 18, 24 * 103}

TodoKind(completed, priority, due_date, created_date) ==
  [completed |-> completed, priority |-> priority, due_date |-> due_date,
   created_date |-> created_date]

TodoKinds ==
  {TodoKind(c, p, d, cr) : c \in BOOLEAN, p \in {"high", "medium", "low"},
                           d \in AnalysedDueDates, cr \in {NoCreated, 24 * 100}}

LongKinds ==
  {TodoKind(FALSE, "high", NoDue, 24 * 100),
   TodoKind(TRUE, "medium", 24 * 100 + 12, 24 * 100)}

\* TodoData: the i-th todo of a body carries the title i
TodoDataList(kinds) ==
  [i \in DOMAIN kinds |->
     [title |-> i, completed |-> kinds[i].completed, priority |-> kinds[i].priority,
      due_date |-> kinds[i].due_date, created_date |-> kinds[i].created_date]]

AnalysedLists ==
  {TodoDataList(k) : k \in UNION {[1..n -> TodoKinds] : n \in 1..MaxAnalysedLen}}
  \cup {TodoDataList(k) : k \in UNION {[1..n -> LongKinds] : n \in 6..MaxLongLen}}

\* (variant: the digits after the first decimal are cut off)
ToFixed1_Truncating(num, den) == (1000 * num) \div den

\* ((num / den) * 100).toFixed(1), in tenths: the nearest tenth
ToFixed1(num, den) == (2000 * num + den) \div (2 * den)

\* total > 0 ? ((completed / total) * 100).toFixed(1) : "0.0"
Rate(completed, total) == IF total > 0 THEN ToFixed1(completed, total) ELSE 0

IsCompleted(todo) == todo.completed

CompletedCount(list) == Len(SelectSeq(list, IsCompleted))

OfPriority(list, priority) == SelectSeq(list, LAMBDA todo : todo.priority = priority)

\* d.setHours(0, 0, 0, 0) on the server: dates are compared by their local day
LocalDay(instant, tz) == (instant + tz) \div 24

\* d.getHours() on the server
getHours(instant, tz) == (instant + tz) % 24

\* dueDate <= tomorrow
DueSoon(todo, now, tz) ==
  todo.due_date # NoDue /\ LocalDay(todo.due_date, tz) <= LocalDay(now, tz) + 1

\* the filter of urgentTasks
IsUrgent(todo, now, tz) ==
  IF todo.completed THEN FALSE
  ELSE IF todo.priority = "high" THEN TRUE
  ELSE DueSoon(todo, now, tz)

TitlesOf(list) == [i \in DOMAIN list |-> list[i].title]

\* .slice(0, 5)
Slice5(list) == SubSeq(list, 1, IF Len(list) < 5 THEN Len(list) ELSE 5)

urgentTasks(list, now, tz) ==
  Slice5(TitlesOf(SelectSeq(list, LAMBDA todo : IsUrgent(todo, now, tz))))

\* the keys of timeDistribution, in the order of Object.entries
TimeSlots == <<"morning", "afternoon", "evening", "unspecified">>

\* (variant: noon counts as morning)
timeSlot_NoonIsMorning(todo, tz) ==
  IF todo.due_date = NoDue THEN "unspecified"
  ELSE IF getHours(todo.due_date, tz) <= 12 THEN "morning"
  ELSE IF getHours(todo.due_date, tz) < 18 THEN "afternoon"
  ELSE "evening"

timeSlot(todo, tz) ==
  IF todo.due_date = NoDue THEN "unspecified"
  ELSE IF getHours(todo.due_date, tz) < 12 THEN "morning"
  ELSE IF getHours(todo.due_date, tz) < 18 THEN "afternoon"
  ELSE "evening"

timeDistribution(list, tz) ==
  [slot \in {TimeSlots[i] : i \in DOMAIN TimeSlots} |->
     LET inSlot == SelectSeq(list, LAMBDA todo : timeSlot(todo, tz) = slot)
     IN [total |-> Len(inSlot), completed |-> CompletedCount(inSlot)]]

\* .sort((a, b) => parseFloat(b.rate) - parseFloat(a.rate)): an entry goes
\* behind the entries whose rate is not lower
InsertByRate(sorted, entry) ==
  LET ahead == Cardinality({i \in DOMAIN sorted : sorted[i].rate >= entry.rate})
  IN SubSeq(sorted, 1, ahead) \o <<entry>> \o SubSeq(sorted, ahead + 1, Len(sorted))

SortByRate(entries) ==
  LET F[i \in 0..Len(entries)] ==
        IF i = 0 THEN <<>> ELSE InsertByRate(F[i - 1], entries[i])
  IN F[Len(entries)]

timeProductivity(distribution) ==
  LET entries == [i \in DOMAIN TimeSlots |->
                    [time |-> TimeSlots[i],
                     rate |-> Rate(distribution[TimeSlots[i]].completed,
                                   distribution[TimeSlots[i]].total),
                     total |-> distribution[TimeSlots[i]].total]]
  IN SortByRate(SelectSeq(entries, LAMBDA e : e.total > 0))

\* (variant: todos due today count as overdue)
IsOverdue_TodayIncluded(todo, now, tz) ==
  /\ ~todo.completed /\ todo.due_date # NoDue
  /\ LocalDay(todo.due_date, tz) <= LocalDay(now, tz)

\* the filter of overdueTasks
IsOverdue(todo, now, tz) ==
  /\ ~todo.completed /\ todo.due_date # NoDue
  /\ LocalDay(todo.due_date, tz) < LocalDay(now, tz)

overdueTasks(list, now, tz) == SelectSeq(list, LAMBDA todo : IsOverdue(todo, now, tz))

onTimeTasks(list, now, tz) ==
  SelectSeq(list, LAMBDA todo : /\ todo.due_date # NoDue
                                /\ todo.completed
                                /\ LocalDay(todo.due_date, tz) >= LocalDay(now, tz))

tasksWithDueDate(list) == SelectSeq(list, LAMBDA todo : todo.due_date # NoDue)

postponedTasks(overdue, now, tz) ==
  [i \in DOMAIN overdue |->
     [title |-> overdue[i].title,
      daysOverdue |-> (24 * LocalDay(now, tz) - 24 * LocalDay(overdue[i].due_date, tz))
                        \div 24]]

\* Math.floor((due.getTime() - created.getTime()) / (1000 * 60 * 60 * 24))
daysToComplete(todo) == (todo.due_date - todo.created_date) \div 24

\* the filter of quickCompletedTasks
IsQuickCompleted(todo) ==
  IF ~todo.completed \/ todo.created_date = NoCreated \/ todo.due_date = NoDue
  THEN FALSE
  ELSE daysToComplete(todo) <= 1

quickCompletedTasks(list) == SelectSeq(list, IsQuickCompleted)

Analysis(list, now, tz) ==
  LET overdue == overdueTasks(list, now, tz)
      distribution == timeDistribution(list, tz)
  IN [total |-> Len(list),
      completed |-> CompletedCount(list),
      completionRate |-> Rate(CompletedCount(list), Len(list)),
      priorityRate |->
        [p \in {"high", "medium", "low"} |->
           Rate(CompletedCount(OfPriority(list, p)), Len(OfPriority(list, p)))],
      urgentTasks |-> urgentTasks(list, now, tz),
      timeDistribution |-> distribution,
      timeProductivity |-> timeProductivity(distribution),
      overdueTasks |-> overdue,
      onTimeTasks |-> onTimeTasks(list, now, tz),
      deadlineComplianceRate |->
        Rate(Len(onTimeTasks(list, now, tz)), Len(tasksWithDueDate(list))),
      postponedTasks |-> postponedTasks(overdue, now, tz),
      quickCompletedTasks |-> quickCompletedTasks(list)]

\* a member of result.object: a list, or left out
Listed(list) == [present |-> TRUE, list |-> list]

Omitted == [present |-> FALSE, list |-> <<>>]

ModelSummaries ==
  {[urgentTasks |-> u, insights |-> i, recommendations |-> r] :
     u \in {Omitted, Listed(<<>>), Listed(<<0>>)},
     i \in {Omitted, Listed(<<"insight">>)},
     r \in {Omitted, Listed(<<"advice">>)}}

\* member || fallback
OrElse(member, fallback) == IF member.present THEN member.list ELSE fallback

AnalysisFrame == UNCHANGED <<clientVars, apiVars, viewVars, providerVars, summaryVars, boardVars>>

\* POST of the summary endpoint from the statistics to the call of the model
Analyse ==
  /\ analysis.total = 0
  /\ analysis' = Analysis(bodyTodos, serverNow, serverTz)
  /\ UNCHANGED <<bodyTodos, summaryResult>>
  /\ AnalysisFrame

\* generateObject has resolved: the answer is put together
AnalysisReply ==
  /\ analysis.total > 0 /\ summaryResult = NoSummaryResult
  /\ \E object \in ModelSummaries :
       /\ aiResult' = AiResult("object", object, NoAiError)
       /\ summaryResult' =
            SummaryResponse("summary",
                            OrElse(object.urgentTasks, analysis.urgentTasks),
                            OrElse(object.insights, <<>>),
                            OrElse(object.recommendations, <<>>))
  /\ UNCHANGED <<bodyTodos, analysis>>
  /\ UNCHANGED <<apiKey, apiPc, apiReq, apiResp, aiCalls, serverNow, serverTz, dateTable>>
  /\ UNCHANGED <<clientVars, viewVars, providerVars, summaryVars, boardVars>>

InitAnalysis ==
  /\ ClientParked
  /\ apiKey = "set"
  /\ apiPc = "idle"
  /\ apiReq = NoApiReq
  /\ apiResp = NoResp
  /\ aiCalls = 0
  /\ aiResult = NoAiResult
  /\ serverNow = 24 * 100 + 10
  /\ serverTz \in {0, 9}
  /\ dateTable = NoDateTable
  /\ ViewIdle
  /\ ProviderIdle
  /\ SummaryIdle
  /\ bodyTodos \in AnalysedLists
  /\ analysis = NoAnalysis
  /\ summaryResult = NoSummaryResult
  /\ BoardIdle

NextAnalysis ==
  \/ Analyse
  \/ AnalysisReply

SpecAnalysis == InitAnalysis /\ [][NextAnalysis]_vars

(***************************************************************************)
(* The article board.  The servlet container runs the handlers of several  *)
(* requests at once; update and delete call the repository twice           *)
(* (findById, then save or delete), and another request can run between    *)
(* the two calls.                                                          *)
(***************************************************************************)
MaxBoardRequests == 3

\* ids a form or a path can carry: stored ones and one never stored
FormIds == {1, 2, 3, 9}

ArticleTitles == {"a", "b"}

ArticleIds(rows) == {row.id : row \in rows}

\* findById(id).orElse(null) # null
Found(id) == id \in ArticleIds(articles)

\* the next value of the id generator
NextArticleId == 3 + nboard

\* save(entity) of an entity that has an id: the row with that id is replaced;
\* when there is none a row is inserted, under the entity's id or under a
\* generated one
Save(entity) ==
  IF entity.id \in ArticleIds(articles)
  THEN {{row \in articles : row.id # entity.id} \cup {entity}}
  ELSE {articles \cup {entity},
        articles \cup {Article(NextArticleId, entity.title)}}

\* delete(entity): the row with the entity's id is removed, if there is one
Delete(entity) == {row \in articles : row.id # entity.id}

BoardRequest(rid, kind, id, title, target) ==
  [rid |-> rid, kind |-> kind, id |-> id, title |-> title, target |-> target]

\* an answer, with the table as it was before and after the handler's last
\* repository call
BoardAnswer(r, redirect, flash, before, after) ==
  [rid |-> r.rid, kind |-> r.kind, id |-> r.id, target |-> r.target,
   redirect |-> redirect, flash |-> flash, before |-> before, after |-> after]

BoardFrame ==
  UNCHANGED <<clientVars, apiVars, viewVars, providerVars, summaryVars, analysisVars>>

\* POST /articles/create: save(form.toEntity()) of an entity without id
createArticle ==
  /\ nboard < MaxBoardRequests
  /\ \E title \in ArticleTitles :
       LET saved == Article(NextArticleId, title)
           r == BoardRequest(nboard + 1, "create", saved.id, title, FALSE)
       IN /\ articles' = articles \cup {saved}
          /\ boardLog' = boardLog \cup
               {BoardAnswer(r, <<"/articles", saved.id>>, "none", articles, articles')}
  /\ nboard' = nboard + 1
  /\ UNCHANGED boardPending
  /\ BoardFrame

\* POST /articles/update up to findById
updateFind ==
  /\ nboard < MaxBoardRequests
  /\ \E id \in FormIds, title \in ArticleTitles :
       boardPending' = boardPending \cup
         {BoardRequest(nboard + 1, "update", id, title, Found(id))}
  /\ nboard' = nboard + 1
  /\ UNCHANGED <<articles, boardLog>>
  /\ BoardFrame

\* POST /articles/update from the test of target to the redirect
update ==
  /\ \E r \in boardPending :
       /\ r.kind = "update"
       /\ boardPending' = boardPending \ {r}
       /\ IF r.target
          THEN \E saved \in Save(Article(r.id, r.title)) : articles' = saved
          ELSE articles' = articles
       /\ boardLog' = boardLog \cup
            {BoardAnswer(r, <<"/articles", r.id>>, "none", articles, articles')}
  /\ UNCHANGED nboard
  /\ BoardFrame

\* GET /articles/{id}/delete up to findById
deleteFind ==
  /\ nboard < MaxBoardRequests
  /\ \E id \in FormIds :
       boardPending' = boardPending \cup
         {BoardRequest(nboard + 1, "delete", id, "", Found(id))}
  /\ nboard' = nboard + 1
  /\ UNCHANGED <<articles, boardLog>>
  /\ BoardFrame

\* GET /articles/{id}/delete from the test of target to the redirect
delete ==
  /\ \E r \in boardPending :
       /\ r.kind = "delete"
       /\ boardPending' = boardPending \ {r}
       /\ articles' = IF r.target THEN Delete(Article(r.id, r.title)) ELSE articles
       /\ boardLog' = boardLog \cup
            {BoardAnswer(r, <<"/articles", 0>>,
                         IF r.target THEN "deleted" ELSE "none", articles, articles')}
  /\ UNCHANGED nboard
  /\ BoardFrame

InitBoard ==
  /\ ClientParked
  /\ ApiIdle
  /\ ViewIdle
  /\ ProviderIdle
  /\ SummaryIdle
  /\ AnalysisIdle
  /\ articles \in {{}, {Article(1, "a")}, {Article(1, "a"), Article(2, "b")}}
  /\ boardPending = {}
  /\ boardLog = {}
  /\ nboard = 0

NextBoard ==
  \/ createArticle
  \/ updateFind
  \/ update
  \/ deleteFind
  \/ delete

SpecBoard == InitBoard /\ [][NextBoard]_vars

(***************************************************************************)
(* Contracts of the optimistic-update layer.                               *)
(***************************************************************************)
Range(s) == {s[i] : i \in DOMAIN s}

Count(s, t) == Cardinality({i \in DOMAIN s : s[i] = t})

\* the two lists hold the same records with the same field values
SameRecords(a, b) == \A t \in Range(a) \cup Range(b) : Count(a, t) = Count(b, t)

Quiescent == pending = {}

FailedReply(ops) == last.op \in ops /\ last.err # NoError

\* C1: whenever no storage request is in flight, the list shows no effect of a
\* rejected mutation: a record whose add was rejected is absent, a record whose
\* delete was rejected is present, and a record all of whose edits and toggles
\* were rejected has the field values it had before them.
C1_RejectedMutationLeavesNoTrace ==
  Quiescent =>
    /\ \A t \in hist.addRejected \ (hist.addConfirmed \cup hist.tempShared) :
         t \notin Ids(todos)
    /\ \A id \in hist.delRejected \ hist.delAccepted :
         ~IsTemp(id) => id \in Ids(todos)
    /\ \A v \in hist.firstVal :
         (v.id \notin hist.updAccepted /\ v.id \in Ids(todos)) =>
           \A i \in DOMAIN todos : todos[i].id = v.id => todos[i] = v

\* C2: once the create request of an add has succeeded, no record with that
\* add's temporary identifier is in the list, in that state and in every later
\* one (temporary identifiers that two adds share are left out).
C2_NoTempIdAfterConfirmedAdd ==
  \A t \in hist.addConfirmed \ hist.tempShared : t \notin Ids(todos)

\* C3: for an edit, delete or toggle issued while nothing else is in flight and
\* resolved before anything else is issued: when the request fails, the list
\* holds exactly the records it held when the handler was invoked.
C3_FailureRestoresListBeforeHandler ==
  (FailedReply({"EditReply", "DeleteReply", "ToggleReply"}) /\ last.req.solo) =>
    SameRecords(todos, last.req.snap)

\* C4: when the create request of an add fails, after the rollback no record
\* with the add's temporary identifier is in the list, and every other record
\* is still in it: the rollback takes at most one record, the add's own, out
\* of the list, and leaves every record with another identifier in place.
C4_AddRollbackRemovesOnlyOwnRecord ==
  FailedReply({"AddReply"}) =>
    /\ last.req.id \notin Ids(todos)
    /\ Len(todos) >= Len(last.before) - 1
    /\ \A t \in Range(last.before) :
         t.id # last.req.id => Count(todos, t) = Count(last.before, t)

\* C5: the ids of the records in the list are pairwise distinct.
C5_IdsPairwiseDistinct ==
  \A i, j \in DOMAIN todos : i # j => todos[i].id # todos[j].id

\* C6: every update and delete request is filtered by the target record's id
\* and by the authenticated user's id, every insert carries the authenticated
\* user's id as user_id, and a handler invoked without an authenticated user
\* sends nothing.
C6_RequestsScopedToUser ==
  /\ \A r \in pending :
       r.op \in MutationOps =>
         /\ r.uid = Me
         /\ r.op = "insert" => r.prev.user_id = r.uid
         /\ r.op \in {"update", "toggle"} => r.id = r.prev.id /\ r.id # NoId
         /\ r.op = "delete" => r.id # NoId /\ (r.prev # NoTodo => r.id = r.prev.id)
  /\ (last.op \in {"handleAddTodo", "handleEditTodo", "handleDeleteConfirm",
                   "handleToggleComplete"} /\ authUser = NoUser) =>
       last.req = NoReq

\* C6 witness: an update and a delete of this user are in flight together.
C6_Witness ==
  /\ \E r \in pending : r.op \in {"update", "toggle"}
  /\ \E r \in pending : r.op = "delete" /\ r.prev # NoTodo

\* the optimistic change of the failed request in `last` is not in the list
RolledBack ==
  CASE last.op = "AddReply" -> last.req.id \notin Ids(todos)
    [] last.op = "EditReply" ->
         \A i \in DOMAIN todos : todos[i].id = last.req.id => todos[i] = last.req.prev
    [] last.op = "DeleteReply" ->
         last.req.prev # NoTodo => last.req.prev \in Range(todos)
    [] last.op = "ToggleReply" ->
         \A i \in DOMAIN todos :
           todos[i].id = last.req.id => todos[i].completed = last.req.prev.completed
    [] OTHER -> TRUE

MutationReplies == {"AddReply", "EditReply", "DeleteReply", "ToggleReply"}

\* the error indicates an expired or invalid session
SessionExpired(e) == e.code = "PGRST301" \/ Includes(e.message, JWT)

\* C7 as stated: for every failed add, edit, delete or toggle request the
\* optimistic change is rolled back, navigation to the login screen is issued
\* iff the error indicates an expired session, and otherwise a notification
\* carrying the error's message is shown.
C7_FailureShowsErrorMessage ==
  FailedReply(MutationReplies) =>
    /\ RolledBack
    /\ last.nav <=> SessionExpired(last.err)
    /\ ~SessionExpired(last.err) => last.toast = last.err.message

FallbackToast ==
  CASE last.op = "AddReply" -> ToastAddFailed
    [] last.op = "EditReply" -> ToastEditFailed
    [] last.op = "DeleteReply" -> ToastDeleteFailed
    [] last.op = "ToggleReply" -> ToastToggleFailed
    [] OTHER -> NoToast

\* C7 amended: for every failed add, edit, delete or toggle request the
\* optimistic change is rolled back, navigation to the login screen is issued
\* iff the error indicates an expired session, and otherwise a notification is
\* shown that carries the error's message, or the handler's fixed fallback
\* text when the error's message is empty.
C7_FailureShowsMessageOrFallback ==
  FailedReply(MutationReplies) =>
    /\ RolledBack
    /\ last.nav <=> SessionExpired(last.err)
    /\ ~SessionExpired(last.err) =>
         /\ last.err.message # <<>> => last.toast = last.err.message
         /\ last.err.message = <<>> => last.toast = FallbackToast

\* C7 witness: a toggle failed with an error whose message names the JWT but
\* whose code is not PGRST301, and the completed flag is back.
C7_Witness ==
  /\ FailedReply({"ToggleReply"})
  /\ last.err.code # "PGRST301" /\ SessionExpired(last.err)
  /\ last.req.id \in Ids(todos)

(***************************************************************************)
(* Contracts of the two endpoints.                                         *)
(***************************************************************************)

\* an extraction request has been taken up and its body carries a string input
ExtractionOfString ==
  /\ apiPc # "idle"
  /\ apiReq.endpoint = "todo"
  /\ apiReq.body.kind = "object"
  /\ apiReq.body.input.type = "string"

\* length of a text once trimmed and with every run of blanks made one space:
\* its non-blank characters plus one for each blank run that has characters
\* on both sides
NormalizedLength(t) ==
  LET chars == {i \in DOMAIN t : ~t[i].ws}
      inner == {i \in DOMAIN t : t[i].ws /\ (\E j \in chars : j < i)
                                         /\ (\E j \in chars : j > i)}
      sum[k \in 0..Len(t)] ==
        IF k = 0 THEN 0
        ELSE sum[k - 1] + (IF k \in chars THEN t[k].n ELSE 0)
  IN sum[Len(t)] + Cardinality(inner)

LengthErrors == {"empty", "too-short", "too-long"}

\* C8 as stated: every string input whose normalized length is below 2 or
\* above 500 is answered with status 400 and without a call of the inference
\* provider; an input whose normalized length is within 2..500 is not
\* rejected for its length.
C8_LengthOutOfRangeIs400 ==
  ExtractionOfString =>
    LET n == NormalizedLength(apiReq.body.input.text)
    IN /\ (n < 2 \/ n > 500) => (apiResp.status = 400 /\ aiCalls = 0)
       /\ n \in 2..500 => apiResp.error \notin LengthErrors

\* C8 amended: when the inference credential is configured, every string
\* input whose normalized length is below 2 or above 500 is answered with
\* status 400 and without a call of the inference provider, and an input
\* whose normalized length is within 2..500 is not rejected for its length
\* but handed to the inference provider, even when its raw length exceeds
\* 500; when the credential is not configured the answer is 500 and the
\* provider is not called.
C8_LengthOutOfRangeIs400WhenConfigured ==
  ExtractionOfString =>
    LET n == NormalizedLength(apiReq.body.input.text)
    IN IF apiKey = "set"
       THEN /\ (n < 2 \/ n > 500) =>
                 (apiPc = "done" /\ apiResp.status = 400 /\ aiCalls = 0)
            /\ n \in 2..500 =>
                 (aiCalls = 1 /\ apiResp.error \notin LengthErrors)
       ELSE apiPc = "done" /\ apiResp.status = 500 /\ aiCalls = 0

\* C8 witness: an input of more than 500 raw characters whose normalized
\* length is exactly 500 has been handed to the inference provider.
C8_Witness ==
  /\ ExtractionOfString
  /\ StrLen(apiReq.body.input.text) > 500
  /\ NormalizedLength(apiReq.body.input.text) = 500
  /\ aiCalls = 1

\* the body of the request is not parseable JSON, or carries no string input
NoStringInput ==
  \/ apiReq.body.kind # "object"
  \/ apiReq.body.input.type # "string"

\* C9: every request to the extraction endpoint (credential configured)
\* whose body is not parseable JSON, or whose parsed body carries no
\* string-valued input (missing, not a string, or a body that is null or not
\* an object), is answered with status 400.
C9_NoStringInputIs400 ==
  (apiPc = "done" /\ apiReq.endpoint = "todo" /\ apiKey = "set" /\ NoStringInput)
    => apiResp.status = 400

\* C10: with the inference credential unset or empty, both endpoints answer
\* every request with status 500 and do not call the inference provider.
C10_UnconfiguredIs500 ==
  (apiPc # "idle" /\ apiKey \in {"undefined", ""}) =>
    /\ apiPc = "done"
    /\ apiResp.status = 500
    /\ aiCalls = 0

\* C10 witness: a summary request with two todos and a valid period, which a
\* configured server would summarise, was answered without a credential.
C10_Witness ==
  /\ apiPc = "done"
  /\ apiKey = ""
  /\ apiReq.endpoint = "summary"
  /\ apiReq.body.kind = "object"
  /\ apiReq.body.todos = JsonArray(2, "todo")
  /\ apiReq.body.period = JsonWord("week")
  /\ apiResp.status = 500

\* the extraction endpoint has post-processed an object the model returned
ExtractionSettled ==
  /\ apiPc = "done"
  /\ apiReq.endpoint = "todo"
  /\ aiResult.kind = "object"

\* the calendar day of the request on the server's clock
ServerToday == (apiReq.now + apiReq.tz) \div 24

\* the due date the endpoint works with after post-processing
ProcessedDueDate ==
  postprocessTodoData(aiResult.object, apiReq.now, apiReq.tz).due_date

ProcessedTitle ==
  postprocessTodoData(aiResult.object, apiReq.now, apiReq.tz).title

\* C12: a model title of fewer than 2 characters yields the placeholder; one
\* of more than 100 characters yields its first 97 characters followed by
\* "...", 100 characters in all; one of 2..100 characters is unchanged; every
\* returned title has between 2 and 100 characters.
C12_TitleClamped ==
  ExtractionSettled =>
    LET title == aiResult.object.title
        out == ProcessedTitle
    IN /\ Len(title) < 2 => out = PlaceholderTitle
       /\ Len(title) > 100 =>
            /\ Len(out) = 100
            /\ SubSeq(out, 1, 97) = SubSeq(title, 1, 97)
            /\ SubSeq(out, 98, 100) = <<".", ".", ".">>
       /\ Len(title) \in 2..100 => out = title
       /\ Len(out) \in 2..100
       /\ apiResp.status = 200 => apiResp.data.title = out

\* C12 witness: a title of 101 characters came back cut in a 200 response.
C12_Witness ==
  /\ ExtractionSettled
  /\ Len(aiResult.object.title) = 101
  /\ apiResp.status = 200
  /\ Len(apiResp.data.title) = 100

\* a text of the shape YYYY-MM-DD (the model keeps such a date as its day)
MatchesDate(due) == due.wellFormed

\* a text of the shape HH:mm: two digits, a colon, two digits
MatchesTime(t) ==
  /\ Len(t) = 5
  /\ \A i \in {1, 2, 4, 5} : t[i] \in Digits
  /\ t[3] = ":"

\* the time the endpoint works with: 09:00 when the model gave none
TimeOrDefault(t) == IF t \in {NoTime, <<>>} THEN <<"0", "9", ":", "0", "0">> ELSE t

\* C13: when the inference call of the extraction endpoint succeeds, the
\* response is 500 if the post-processed due_date has not the shape YYYY-MM-DD
\* or the due_time has not the shape HH:mm; otherwise it is 200 with due_date
\* "<due_date>T<due_time>:00" (due_time 09:00 when the model gave none), with
\* description and category null when absent, and with completed false.
C13_ValidatedThenCombined ==
  ExtractionSettled =>
    LET raw == aiResult.object
        time == TimeOrDefault(raw.due_time)
    IN IF ~MatchesDate(ProcessedDueDate) \/ ~MatchesTime(time)
       THEN apiResp.status = 500
       ELSE /\ apiResp.status = 200
            /\ apiResp.data.due_date.date = ProcessedDueDate
            /\ apiResp.data.due_date.rest = <<"T">> \o time \o <<":", "0", "0">>
            /\ raw.description = NoText => apiResp.data.description = NullText
            /\ raw.category = NoText => apiResp.data.category = NullText
            /\ (raw.description \notin {NoText, <<>>}) =>
                 apiResp.data.description = raw.description
            /\ (raw.category \notin {NoText, <<>>}) =>
                 apiResp.data.category = raw.category
            /\ apiResp.data.completed = FALSE

\* C13 witness: the model gave a date but neither time nor description nor
\* category, and the 200 response carries T09:00:00 and the two nulls.
C13_Witness ==
  /\ ExtractionSettled
  /\ aiResult.object.due_time = NoTime
  /\ aiResult.object.description = NoText
  /\ apiResp.status = 200
  /\ apiResp.data.due_date.rest = <<"T", "0", "9", ":", "0", "0", ":", "0", "0">>
  /\ apiResp.data.category = NullText

\* the inference call of the request failed and the handler has answered
InferenceFailed == apiPc = "done" /\ aiResult.kind = "error"

\* the error's message contains "quota", "rate limit" or "429", or its status
\* is 429
SaysRateLimited(e) ==
  \/ e.status = 429
  \/ /\ e.hasMessage
     /\ \E word \in { <<"q", "u", "o", "t", "a">>,
                       <<"r", "a", "t", "e", " ", "l", "i", "m", "i", "t">>,
                       <<"4", "2", "9">> } :
          \E i \in 1..Len(e.message) :
            \E j \in i..Len(e.message) : SubSeq(e.message, i, j) = word

\* C14: for every failure of the inference call, in either endpoint, the
\* response has status 429 if the error's message contains "quota", "rate
\* limit" or "429" or its status is 429, and 500 otherwise, with a generic
\* error text; and every answered request has a status in {200, 400, 429, 500}.
C14_InferenceFailureClassified ==
  /\ InferenceFailed =>
       /\ apiResp.status = (IF SaysRateLimited(aiResult.error) THEN 429 ELSE 500)
       /\ apiResp.error \in {"rate-limited", "ai-failed"}
       /\ apiResp.error = "rate-limited" <=> apiResp.status = 429
  /\ apiPc = "done" => apiResp.status \in {200, 400, 429, 500}

\* C14 witness: the summary's inference call failed with status 503 and a
\* message that contains "quota", and the answer is 429.
C14_Witness ==
  /\ InferenceFailed
  /\ apiReq.endpoint = "summary"
  /\ aiResult.error.status = 503
  /\ aiResult.error.hasMessage
  /\ Len(aiResult.error.message) > 5
  /\ aiResult.error.message[4] = "q"
  /\ apiResp.status = 429

\* a summary request with todos = [] and period "today" or "week"
EmptyListRequest ==
  /\ apiPc # "idle"
  /\ apiReq.endpoint = "summary"
  /\ apiReq.body.kind = "object"
  /\ apiReq.body.todos.type = "array" /\ apiReq.body.todos.n = 0
  /\ apiReq.body.period.type = "string"
  /\ apiReq.body.period.word \in {"today", "week"}

\* C15 as stated: for todos = [] and period "today" or "week" the summary
\* endpoint answers 200 with the canned body and calls no inference.
C15_EmptyListIsCanned ==
  EmptyListRequest =>
    /\ apiPc = "done"
    /\ aiCalls = 0
    /\ apiResp.status = 200
    /\ apiResp.data = EmptySummary(apiReq.body.period.word)

\* C15 amended: when the inference credential is configured, for todos = []
\* and period "today" or "week" the summary endpoint answers 200 with the
\* sentence of that period, no urgent task, the one fixed insight and the one
\* fixed recommendation, and calls no inference; when the credential is not
\* configured it answers 500, also without an inference call.
C15_EmptyListCannedSummary ==
  EmptyListRequest =>
   IF apiKey # "set" THEN apiPc = "done" /\ apiResp.status = 500 /\ aiCalls = 0
   ELSE
    /\ apiPc = "done"
    /\ aiCalls = 0
    /\ apiResp.status = 200
    /\ apiResp.data.summary =
         (IF apiReq.body.period.word = "today" THEN NoTodosToday ELSE NoTodosThisWeek)
    /\ apiResp.data.urgentTasks = <<>>
    /\ apiResp.data.insights = <<AddTodosInsight>>
    /\ apiResp.data.recommendations = <<AddTodoRecommendation>>

\* C15 witness: an empty list with period "week" was answered with the
\* sentence for the week.
C15_Witness ==
  /\ apiPc = "done"
  /\ apiReq.endpoint = "summary"
  /\ apiReq.body.kind = "object"
  /\ apiReq.body.todos.type = "array" /\ apiReq.body.todos.n = 0
  /\ apiReq.body.period.word = "week"
  /\ apiResp.status = 200
  /\ apiResp.data.summary = NoTodosThisWeek

\* in the parsed body of the summary request todos is not a list, or period
\* is neither "today" nor "week" (a body that is no object has neither)
BadSummaryFields ==
  /\ apiReq.body.kind # "unparseable"
  /\ \/ apiReq.body.kind # "object"
     \/ apiReq.body.todos.type # "array"
     \/ apiReq.body.period.type # "string"
     \/ apiReq.body.period.word \notin {"today", "week"}

\* C16: every request to the summary endpoint (credential configured) in
\* which todos is not a list or period is neither "today" nor "week",
\* missing fields and bodies that are null or no object included, is
\* answered with status 400 and without an inference call.
C16_BadSummaryFieldsIs400 ==
  (apiPc # "idle" /\ apiReq.endpoint = "summary" /\ apiKey = "set"
     /\ BadSummaryFields) =>
    /\ apiPc = "done"
    /\ apiResp.status = 400
    /\ aiCalls = 0

\* the extraction endpoint has built its date table
TableBuilt == apiReq.endpoint = "todo" /\ aiCalls = 1

\* the first day from `from` on that falls on the given day of the week
FirstOn(weekday, from) ==
  CHOOSE d \in from..(from + 6) : Weekday(d) = weekday

\* C17: with today the date the table prints as today: tomorrow is today + 1
\* and the day after tomorrow today + 2; this week's Friday is today on a
\* Friday and otherwise the first Friday after today; next week's Monday is
\* today + 7 on a Monday and otherwise the first Monday after today; the
\* Friday anchor prints a Friday and the Monday anchor a Monday.
C17_AnchorsFallOnTheirDays ==
  TableBuilt =>
    LET today == dateTable.todayISO
    IN /\ dateTable.tomorrowISO = today + 1
       /\ dateTable.dayAfterTomorrowISO = today + 2
       /\ dateTable.thisWeekFridayISO = FirstOn(5, today)
       /\ dateTable.nextWeekMondayISO = FirstOn(1, today + 1)
       /\ Weekday(dateTable.thisWeekFridayISO) = 5
       /\ Weekday(dateTable.nextWeekMondayISO) = 1

(***************************************************************************)
(* Contracts of the list view.                                             *)
(***************************************************************************)
\* what the status filter is to select at the instant now
StatusSelects(filter, t, now) ==
  CASE filter = "completed" -> t.completed
    [] filter = "in-progress" -> ~t.completed /\ (t.due_date = NoDue \/ t.due_date >= now)
    [] filter = "overdue" -> ~t.completed /\ t.due_date # NoDue /\ t.due_date < now
    [] filter = "all" -> TRUE

\* no search text and no priority filter are set
OnlyStatusFilter == searchQuery = <<>> /\ priorityFilter = "all"

C19_UndatedLast ==
  sortBy = "due_date" =>
    \A i, j \in DOMAIN view :
      i < j =>
        /\ view[i].due_date = NoDue => view[j].due_date = NoDue
        /\ (view[i].due_date # NoDue /\ view[j].due_date # NoDue) =>
             view[i].due_date <= view[j].due_date

\* C19 witness: a view sorted by due date that shows two todos without due
\* date behind one with a due date.
C19_Witness ==
  /\ sortBy = "due_date"
  /\ Len(view) = 3
  /\ Len(todos) = 3 /\ todos[1].due_date = NoDue /\ todos[2].due_date # NoDue
  /\ view[1].due_date # NoDue
  /\ view[2].due_date = NoDue
  /\ view[3].due_date = NoDue


\* router.replace(target) has been called
Issued(target) == \E i \in DOMAIN replaced : replaced[i] = target

\* C20: whenever initAuth has finished with no authenticated user on a path
\* other than /login and /signup, a redirect to /login has been issued,
\* whichever way the session lookup ended (no session, an error returned, an
\* exception thrown); and whenever it has finished with an authenticated user
\* on /login or /signup, a redirect to / has been issued.
C20_InitRedirects ==
  initOutcome # NoOutcome =>
    /\ (initOutcome.user = NoUser /\ ~IsAuthPage(initOutcome.path)) => Issued("/login")
    /\ (initOutcome.user # NoUser /\ IsAuthPage(initOutcome.path)) => Issued("/")

\* C20, its last part: loading eventually becomes false on every path
C20_LoadingEventuallyFalse == <>(~loading)


\* the rows the backend holds for the signed-in user
RowsOf(user) == {row \in db : row.user_id = user}

\* C21: whenever no storage request is in flight and a fetch has succeeded, the
\* in-memory list of the signed-in user holds exactly the records the backend holds for this user,
\* each once, with the same ids and the same field values.
C21_ListEqualsBackendWhenQuiet ==
  (Quiescent /\ authUser = Me /\ hist.fetched) =>
    /\ Range(todos) = RowsOf(Me)
    /\ Len(todos) = Cardinality(RowsOf(Me))



\* an edit that was submitted with nothing else in flight and is still the only
\* request: r.snap is the list immediately before the submission
EditJustSubmitted(r) ==
  /\ r \in pending /\ r.op = "update" /\ r.solo
  /\ r.id \in Ids(r.snap)

\* C22: an edit changes only the edited fields of its target, in the list and in
\* the request sent to the backend: the completed flag the request carries is
\* the one the target had in the list immediately before the submission (also
\* when it was toggled after the form was opened), and the list is the list
\* before the submission with the target's title replaced.
C22_EditKeepsCompletedAndOthers ==
  \A r \in pending :
    EditJustSubmitted(r) =>
      LET before == Find(r.snap, r.id)
      IN /\ r.completed = before.completed
         /\ r.id = before.id /\ r.uid = before.user_id
         /\ todos = MapReplace(r.snap, r.id, [before EXCEPT !.title = r.title])



\* C23: whenever a summary is on display, it was computed for the period tab
\* that is selected now: the reply to a request made under the other tab is
\* never shown under the selected one.
C23_SummaryIsForSelectedTab ==
  summaryData # NoSummary => summaryData.period = summaryPeriod



\* C24: for every todo and every instant, the status under which the status
\* filter lists the todo is the status its card shows: the filter selects it
\* under completed, in-progress or overdue iff getStatus gives that status.
C24_FilterAgreesWithCard ==
  \A t \in Range(todos) :
    \A f \in {"completed", "in-progress", "overdue"} :
      MatchesStatus(t, f, viewNow) <=> (getStatus(t, viewNow) = f)



\* the statistics of the list have been computed
Analysed == analysis.total > 0

\* the answer has been built from the model's reply
Answered == Analysed /\ summaryResult # NoSummaryResult

\* the todo is not completed and is high-priority or due today or tomorrow
UrgentAsSpecified(todo) ==
  /\ ~todo.completed
  /\ \/ todo.priority = "high"
     \/ /\ todo.due_date # NoDue
        /\ LocalDay(todo.due_date, serverTz) \in
             {LocalDay(serverNow, serverTz), LocalDay(serverNow, serverTz) + 1}

\* C25: every title in the locally computed urgent list belongs to an
\* incomplete todo that is high-priority or due today or tomorrow; the todos
\* meeting that condition are listed in input order, at most 5 of them; when
\* the model's reply omits urgentTasks the local list is returned, and omitted
\* insights and recommendations are returned as empty lists.
C25_UrgentTasksAsSpecified ==
  /\ Analysed =>
       LET wanted == TitlesOf(SelectSeq(bodyTodos, UrgentAsSpecified))
       IN /\ Len(analysis.urgentTasks) <= 5
          /\ analysis.urgentTasks =
               SubSeq(wanted, 1, IF Len(wanted) < 5 THEN Len(wanted) ELSE 5)
  /\ Answered =>
       /\ ~aiResult.object.urgentTasks.present =>
            summaryResult.urgentTasks = analysis.urgentTasks
       /\ ~aiResult.object.insights.present => summaryResult.insights = <<>>
       /\ ~aiResult.object.recommendations.present =>
            summaryResult.recommendations = <<>>



\* rate (in tenths of a percent) is 100 * completed / total rounded to one
\* decimal place: no other tenth is nearer to the quotient
NearestTenth(rate, completed, total) ==
  /\ 2 * (rate * total - 1000 * completed) <= total
  /\ 2 * (1000 * completed - rate * total) <= total

RateAsSpecified(rate, group) ==
  /\ rate >= 0 /\ rate <= 1000
  /\ IF Len(group) = 0 THEN rate = 0
     ELSE NearestTenth(rate, CompletedCount(group), Len(group))

\* C26: the overall completion rate and the completion rate of each of the
\* priorities high, medium and low equal 100 * completed / total of the group
\* rounded to one decimal place, and 0.0 when the group has no todo; each rate
\* lies between 0.0 and 100.0.
C26_RatesRounded ==
  Analysed =>
    /\ RateAsSpecified(analysis.completionRate, bodyTodos)
    /\ \A p \in {"high", "medium", "low"} :
         RateAsSpecified(analysis.priorityRate[p],
                         SelectSeq(bodyTodos, LAMBDA todo : todo.priority = p))

\* C26 witness: six todos of which four are completed (66.7 overall), the
\* high-priority ones all open (0.0), no low-priority one (0.0).
C26_Witness ==
  /\ Analysed
  /\ Len(bodyTodos) = 6
  /\ analysis.completed = 4
  /\ analysis.completionRate = 667
  /\ analysis.priorityRate["high"] = 0
  /\ analysis.priorityRate["medium"] = 1000
  /\ analysis.priorityRate["low"] = 0

\* positions of the todos of a list that meet a condition
Positions(list, Test(_)) == {i \in DOMAIN list : Test(list[i])}

\* the todo is incomplete and its due day is strictly before today
OverdueAsSpecified(todo) ==
  /\ ~todo.completed
  /\ todo.due_date # NoDue
  /\ LocalDay(todo.due_date, serverTz) < LocalDay(serverNow, serverTz)

OnTimeAsSpecified(todo) ==
  /\ todo.completed
  /\ todo.due_date # NoDue
  /\ LocalDay(todo.due_date, serverTz) >= LocalDay(serverNow, serverTz)

HasDueDate(todo) == todo.due_date # NoDue

\* C27: the overdue set consists of exactly the incomplete todos whose due day
\* is strictly before today (no completed and no undated todo); each is
\* annotated with the whole number of days from its due day to today, which is
\* at least 1; the deadline compliance rate is (completed todos due today or
\* later) / (todos with a due date).
C27_OverdueAndCompliance ==
  Analysed =>
    /\ analysis.overdueTasks = SelectSeq(bodyTodos, OverdueAsSpecified)
    /\ \A i \in DOMAIN analysis.overdueTasks :
         /\ ~analysis.overdueTasks[i].completed
         /\ analysis.overdueTasks[i].due_date # NoDue
    /\ Len(analysis.postponedTasks) = Len(analysis.overdueTasks)
    /\ \A i \in DOMAIN analysis.postponedTasks :
         /\ analysis.postponedTasks[i].title = analysis.overdueTasks[i].title
         /\ analysis.postponedTasks[i].daysOverdue =
              LocalDay(serverNow, serverTz)
                - LocalDay(analysis.overdueTasks[i].due_date, serverTz)
         /\ analysis.postponedTasks[i].daysOverdue >= 1
    /\ LET onTime == Cardinality(Positions(bodyTodos, OnTimeAsSpecified))
           dated == Cardinality(Positions(bodyTodos, HasDueDate))
       IN IF dated = 0 THEN analysis.deadlineComplianceRate = 0
          ELSE NearestTenth(analysis.deadlineComplianceRate, onTime, dated)

\* C27 witness: of two dated todos, the open one was due three days ago and
\* the completed one is due today: one overdue by 3 days, compliance 50.0.
C27_Witness ==
  /\ Analysed
  /\ Len(bodyTodos) = 2
  /\ Len(analysis.overdueTasks) = 1
  /\ analysis.postponedTasks[1].daysOverdue = 3
  /\ \E i \in DOMAIN bodyTodos :
       bodyTodos[i].completed /\ bodyTodos[i].due_date # NoDue
       /\ LocalDay(bodyTodos[i].due_date, serverTz) = LocalDay(serverNow, serverTz)
  /\ analysis.deadlineComplianceRate = 500

\* completed, with a creation date and a due date at most 24 hours after it
QuickAsSpecified(todo) ==
  /\ todo.completed
  /\ todo.created_date # NoCreated
  /\ todo.due_date # NoDue
  /\ todo.due_date - todo.created_date <= 24

\* C28: a todo is counted as quick-completed if and only if it is completed,
\* has both a creation date and a due date, and its due date minus its
\* creation date is at most 1 day (24 hours).
C28_QuickCompletedWithinOneDay ==
  Analysed => analysis.quickCompletedTasks = SelectSeq(bodyTodos, QuickAsSpecified)

\* the bucket the claim puts a todo in
SlotAsSpecified(todo) ==
  IF todo.due_date = NoDue THEN "unspecified"
  ELSE IF getHours(todo.due_date, serverTz) < 12 THEN "morning"
  ELSE IF getHours(todo.due_date, serverTz) >= 18 THEN "evening"
  ELSE "afternoon"

SlotNames == {"morning", "afternoon", "evening", "unspecified"}

\* C29: each todo is counted in exactly one time-of-day bucket: unspecified iff
\* it has no due date, otherwise morning iff the due hour is < 12, afternoon
\* iff 12 <= hour < 18, evening iff hour >= 18; the bucket totals sum to the
\* number of todos and the bucket completed counts to the number of completed
\* todos; the bucket reported as most productive is a non-empty bucket whose
\* completion rate is >= that of every other non-empty bucket.
C29_TimeBuckets ==
  Analysed =>
    LET dist == analysis.timeDistribution
        InSlot(slot) == {i \in DOMAIN bodyTodos : SlotAsSpecified(bodyTodos[i]) = slot}
    IN /\ \A slot \in SlotNames :
            /\ dist[slot].total = Cardinality(InSlot(slot))
            /\ dist[slot].completed =
                 Cardinality({i \in InSlot(slot) : bodyTodos[i].completed})
       /\ dist["morning"].total + dist["afternoon"].total + dist["evening"].total
            + dist["unspecified"].total = Len(bodyTodos)
       /\ dist["morning"].completed + dist["afternoon"].completed
            + dist["evening"].completed + dist["unspecified"].completed
            = analysis.completed
       /\ Len(analysis.timeProductivity) > 0
       /\ LET best == analysis.timeProductivity[1]
          IN /\ dist[best.time].total > 0
             /\ \A slot \in SlotNames :
                  dist[slot].total > 0 =>
                    \* best's rate >= slot's rate, as exact fractions
                    dist[best.time].completed * dist[slot].total
                      >= dist[slot].completed * dist[best.time].total

\* C29 witness: an open todo due in the morning and a completed one due in the
\* evening: the evening is reported as the most productive bucket.
C29_Witness ==
  /\ Analysed
  /\ analysis.timeDistribution["morning"].total = 1
  /\ analysis.timeDistribution["morning"].completed = 0
  /\ analysis.timeDistribution["evening"].completed = 1
  /\ analysis.timeProductivity[1].time = "evening"
  /\ Len(analysis.timeProductivity) = 2



\* C30: an update or a delete for an id that matches no stored article leaves
\* the stored articles unchanged (update creates no article, delete removes
\* nothing and sets no flash message); an update of an existing id keeps the
\* number of stored articles, a delete of an existing id removes exactly that
\* article; both always answer with a redirect.
C30_UpdateAndDeleteFrame ==
  \A a \in boardLog :
    /\ a.kind = "update" =>
         /\ a.redirect = <<"/articles", a.id>>
         /\ Cardinality(a.after) = Cardinality(a.before)
         /\ a.id \notin ArticleIds(a.before) => a.after = a.before
    /\ a.kind = "delete" =>
         /\ a.redirect = <<"/articles", 0>>
         /\ a.id \notin ArticleIds(a.before) => (a.after = a.before /\ a.flash = "none")
         /\ a.id \in ArticleIds(a.before) =>
              a.after = {row \in a.before : row.id # a.id}


====
